---- MODULE Spec2Model ----
(***************************************************************************)
(* Model of the property-analysis core of Alonerism/NivHenn:               *)
(*   - score normalisation        (NivHenn/src/app/scoring.py)             *)
(*   - agent output parsing       (src/app/crew.py, _parse_agent_output)   *)
(*   - Socrata $where building    (src/app/la_socrata.py)                  *)
(*   - the specialist scheduler   (src/app/crew.py, run_specialists)       *)
(*                                                                         *)
(* Numbers are exact rationals n/d (d > 0).  Python floats that are not    *)
(* finite (inf, -inf, nan) are separate value kinds.  Texts are sequences  *)
(* of tokens: the fence marker ```, the word json, one whitespace          *)
(* character, prose, and JSON documents.                                   *)
(***************************************************************************)
EXTENDS Integers, Sequences, FiniteSets, TLC

VARIABLES
    call,            \* the pure-function call under examination: [fn, arg, done, ret]
    pc,              \* position of the run_specialists invocation
    listing,         \* run_specialists argument: the Listing
    enabled_agents,  \* run_specialists argument: None or a collection of keys
    la_city_records, \* local of run_specialists
    outputs,         \* local of run_specialists: key -> AgentOutput
    raw_outputs,     \* local of run_specialists: key -> raw text tag
    news_response,   \* local of run_specialists: the search_news result
    serper_missing,  \* local of run_specialists
    task_labels,     \* local of run_specialists: labels of the scheduled tasks
    tasks_output,    \* crew_output.tasks_output of the specialist batch
    socrata_token,   \* whether LASocrataTool() found SOCRATA_APP_TOKEN set when the run built it
    la_fetch,        \* what fetch_la_city_records did inside run_specialists
    report,          \* what build_final_report gave analyze_listing
    fetch,           \* one LASocrataTool: its construction and one fetch_all call
    api,             \* one request to the /analyze operation
    serper,          \* one call of search_news
    filters,         \* the filters file, the module lock and the threads using them
    crew             \* one PropertyAnalysisCrew and the analyze_listing calls made on it

vars == <<call, pc, listing, enabled_agents, la_city_records, outputs, raw_outputs,
          news_response, serper_missing, task_labels, tasks_output,
          socrata_token, la_fetch, report, fetch, api, serper, filters, crew>>

runVars == <<pc, listing, enabled_agents, la_city_records, outputs, raw_outputs,
             news_response, serper_missing, task_labels, tasks_output,
             socrata_token, la_fetch, report>>

otherVars == <<call, fetch, api, serper, filters, crew>>

(***************************************************************************)
(* Python values.  Every value is a record of one shape.                   *)
(*   t = "none" | "num" | "inf" | "ninf" | "nan" | "bool" | "str" |        *)
(*       "list" | "badlist" | "dict" | "absent"                            *)
(*   "num": the finite number n/d; "bool": n is 0 or 1; "str": s;          *)
(*   "list": a list of strings l; "badlist": a list holding a non-string;  *)
(*   "absent": the key is not in the dict (only as a dict lookup result).  *)
(***************************************************************************)
PyVal(t, n, d, s, l) == [t |-> t, n |-> n, d |-> d, s |-> s, l |-> l]

PyNone == PyVal("none", 0, 1, "", <<>>)

Absent == PyVal("absent", 0, 1, "", <<>>)

PyNum(n, d) == PyVal("num", n, d, "", <<>>)

PyInt(n) == PyNum(n, 1)

PyInf == PyVal("inf", 0, 1, "", <<>>)

PyNegInf == PyVal("ninf", 0, 1, "", <<>>)

PyNaN == PyVal("nan", 0, 1, "", <<>>)

PyBool(b) == PyVal("bool", IF b THEN 1 ELSE 0, 1, "", <<>>)

PyStr(s) == PyVal("str", 0, 1, s, <<>>)

PyList(l) == PyVal("list", 0, 1, "", l)

PyBadList == PyVal("badlist", 0, 1, "", <<>>)

PyDict == PyVal("dict", 0, 1, "", <<>>)

(***************************************************************************)
(* Results of a call that may raise.                                       *)
(***************************************************************************)
Returned(v) == [ok |-> TRUE, v |-> v, exc |-> ""]

Raised(e) == [ok |-> FALSE, v |-> 0, exc |-> e]

(***************************************************************************)
(* scoring.py                                                              *)
(***************************************************************************)
NeutralScore == 50

MinScore == 1

MaxScore == 100

Max2(a, b) == IF a >= b THEN a ELSE b

Min2(a, b) == IF a <= b THEN a ELSE b

\* Python 3 round(x) of the finite number n/d (d > 0): nearest integer, a tie
\* goes to the even neighbour.
PyRound(n, d) ==
    LET q == n \div d
        r == n % d
    IN  IF 2 * r < d THEN q
        ELSE IF 2 * r > d THEN q + 1
        ELSE IF q % 2 = 0 THEN q ELSE q + 1

\* to_int_1_100(value).  round() raises TypeError on a value with no __round__
\* (str, list, dict), ValueError on nan and OverflowError on an infinity; the
\* except clause catches (ValueError, TypeError) only.
to_int_1_100(value) ==
    IF value.t = "none" THEN Returned(NeutralScore)
    ELSE IF value.t \in {"num", "bool"}
         THEN Returned(Max2(MinScore, Min2(MaxScore, PyRound(value.n, value.d))))
    ELSE IF value.t \in {"inf", "ninf"} THEN Raised("OverflowError")
    ELSE Returned(NeutralScore)

\* The loop of weighted_overall over weights.items(), restricted to the keys
\* not yet visited: <<total_score, total_weight>>.  Weights are integers in
\* hundredths, so both totals are exact.
RECURSIVE WeightedTotals(_, _, _)
WeightedTotals(scores, weights, keys) ==
    IF keys = {} THEN <<0, 0>>
    ELSE LET agent_name == CHOOSE k \in keys : TRUE
             weight == weights[agent_name]
             score == IF agent_name \in DOMAIN scores
                      THEN scores[agent_name] ELSE NeutralScore
             rest == WeightedTotals(scores, weights, keys \ {agent_name})
         IN  <<rest[1] + score * weight, rest[2] + weight>>

\* A plausible slip: the plain mean of the scores, the weights ignored.
weighted_overall_unweighted(scores, weights) ==
    IF DOMAIN scores = {} THEN Returned(NeutralScore)
    ELSE LET ones == [k \in DOMAIN weights |-> 1]
             totals == WeightedTotals(scores, ones, DOMAIN weights)
         IN  IF totals[2] > 0 THEN to_int_1_100(PyNum(totals[1], totals[2]))
             ELSE to_int_1_100(PyInt(NeutralScore))

\* A plausible slip: a key of weights with no score is skipped (the mean is
\* renormalised over the scores present) instead of counting as 50.
weighted_overall_skip_missing(scores, weights) ==
    IF DOMAIN scores = {} THEN Returned(NeutralScore)
    ELSE LET present == DOMAIN weights \cap DOMAIN scores
             totals == WeightedTotals(scores, weights, present)
         IN  IF totals[2] > 0 THEN to_int_1_100(PyNum(totals[1], totals[2]))
             ELSE to_int_1_100(PyInt(NeutralScore))

\* weighted_overall(scores, weights)
weighted_overall(scores, weights) ==
    IF DOMAIN scores = {} THEN Returned(NeutralScore)
    ELSE LET totals == WeightedTotals(scores, weights, DOMAIN weights)
             total_score == totals[1]
             total_weight == totals[2]
             final_score == IF total_weight > 0
                            THEN PyNum(total_score, total_weight)
                            ELSE PyInt(NeutralScore)
         IN  to_int_1_100(final_score)

RECURSIVE SumValues(_, _)
SumValues(f, keys) ==
    IF keys = {} THEN 0
    ELSE LET k == CHOOSE x \in keys : TRUE
         IN  f[k] + SumValues(f, keys \ {k})

HighBelow == 10

MediumBelow == 20

\* A plausible slip: the sample standard deviation (divisor n - 1).
calculate_confidence_sample(scores) ==
    LET keys == DOMAIN scores
        n == Cardinality(keys)
    IN  IF n < 2 THEN "Low"
        ELSE LET S == SumValues(scores, keys)
                 sq == [k \in keys |-> (n * scores[k] - S) * (n * scores[k] - S)]
                 varNum == SumValues(sq, keys)
                 varDen == n * n * (n - 1)
             IN  IF varNum < 100 * varDen THEN "High"
                 ELSE IF varNum < 400 * varDen THEN "Medium"
                 ELSE "Low"

\* calculate_confidence(scores).  With n = len(values) and S = sum(values),
\* mean = S/n, (x - mean)^2 = (n*x - S)^2 / n^2 and
\* variance = sum((n*x - S)^2) / n^3; std_dev < c iff variance < c^2.
calculate_confidence(scores) ==
    LET keys == DOMAIN scores
        n == Cardinality(keys)
    IN  IF n = 0 THEN "Low"
        ELSE IF n < 2 THEN "Low"
        ELSE LET S == SumValues(scores, keys)
                 sq == [k \in keys |-> (n * scores[k] - S) * (n * scores[k] - S)]
                 varNum == SumValues(sq, keys)
                 varDen == n * n * n
             IN  IF varNum < HighBelow * HighBelow * varDen THEN "High"
                 ELSE IF varNum < MediumBelow * MediumBelow * varDen THEN "Medium"
                 ELSE "Low"

\* Settings.get_weights() with the default weights, in hundredths.
get_weights ==
    [k \in {"investment", "location", "news", "vc_risk", "construction"} |->
        CASE k = "investment" -> 30
          [] k = "location" -> 25
          [] k = "news" -> 10
          [] k = "vc_risk" -> 20
          [] k = "construction" -> 15]

(***************************************************************************)
(* models.py: AgentOutput, and the JSON documents an agent may emit.       *)
(***************************************************************************)
AgentOutput(score, rationale, notes) ==
    [score_1_to_100 |-> score, rationale |-> rationale, notes |-> notes]

\* pydantic validation of AgentOutput(score_1_to_100=, rationale=, notes=):
\* score_1_to_100 is an int with ge=1, le=100; rationale is a required str
\* (None is refused); notes is a list of str (None is refused).
AgentOutputValid(score, rationale, notes) ==
    /\ score \in MinScore..MaxScore
    /\ rationale.t = "str"
    /\ notes.t = "list"

\* A JSON document: t = "obj" (an object with the three fields, each possibly
\* absent), "arr" (an array), "jstr" (a string), or "invalid" (no JSON).
JsonDoc(t, score, rationale, notes) ==
    [t |-> t, score |-> score, rationale |-> rationale, notes |-> notes]

JsonObj(score, rationale, notes) == JsonDoc("obj", score, rationale, notes)

NotJson == JsonDoc("invalid", Absent, Absent, Absent)

\* dict.get(key, default)
DictGet(data, key, default) ==
    LET v == CASE key = "score_1_to_100" -> data.score
               [] key = "rationale" -> data.rationale
               [] key = "notes" -> data.notes
    IN  IF v.t = "absent" THEN default ELSE v

(***************************************************************************)
(* Texts: sequences of tokens.                                             *)
(*   "fence" is ```, "json" the word json, "ws" one whitespace character,  *)
(*   "txt" prose of several characters that is no JSON, "doc" the text of  *)
(*   the JSON document `doc`.                                              *)
(***************************************************************************)
Tok(k, doc) == [k |-> k, doc |-> doc]

Fence == Tok("fence", NotJson)

JsonWord == Tok("json", NotJson)

Ws == Tok("ws", NotJson)

Txt == Tok("txt", NotJson)

DocTok(doc) == Tok("doc", doc)

\* `"```json" in raw_output`
HasFenceJson(raw) ==
    \E i \in 1..(Len(raw) - 1) : raw[i].k = "fence" /\ raw[i + 1].k = "json"

\* `"```" in raw_output`
HasFence(raw) == \E i \in 1..Len(raw) : raw[i].k = "fence"

\* raw_output.find("```json"): the number of tokens before the first match.
FindFenceJson(raw) ==
    LET hits == {i \in 1..(Len(raw) - 1) :
                    raw[i].k = "fence" /\ raw[i + 1].k = "json"}
    IN  IF hits = {} THEN -1
        ELSE (CHOOSE i \in hits : \A j \in hits : i <= j) - 1

\* raw_output.find("```", start): the number of tokens before the first fence
\* at or after position start, or -1.
FindFence(raw, start) ==
    LET hits == {i \in 1..Len(raw) : i - 1 >= start /\ raw[i].k = "fence"}
    IN  IF hits = {} THEN -1
        ELSE (CHOOSE i \in hits : \A j \in hits : i <= j) - 1

\* A token with its last character removed.
ChopLast(tok) ==
    CASE tok.k = "ws" -> <<>>
      [] tok.k = "doc" -> <<Txt>>
      [] OTHER -> <<Txt>>

\* raw_output[start:end] for start >= 0 and end >= -1.  end = -1 is Python's
\* "all but the last character".
Slice(raw, start, end) ==
    IF end >= 0
    THEN IF end <= start THEN <<>> ELSE SubSeq(raw, start + 1, end)
    ELSE IF start >= Len(raw) THEN <<>>
         ELSE SubSeq(raw, start + 1, Len(raw) - 1) \o ChopLast(raw[Len(raw)])

\* str.strip()
RECURSIVE Strip(_)
Strip(text) ==
    IF text = <<>> THEN <<>>
    ELSE IF Head(text).k = "ws" THEN Strip(Tail(text))
    ELSE IF text[Len(text)].k = "ws" THEN Strip(SubSeq(text, 1, Len(text) - 1))
    ELSE text

\* A plausible slip: the plain marker is looked for first.
ExtractJsonStrPlainFirst(raw_output) ==
    IF HasFence(raw_output)
    THEN LET start == FindFence(raw_output, 0) + 1
             end == FindFence(raw_output, start)
         IN  Strip(Slice(raw_output, start, end))
    ELSE Strip(raw_output)

\* Lines 159-168 of _parse_agent_output: the text handed to json.loads.
ExtractJsonStr(raw_output) ==
    IF HasFenceJson(raw_output)
    THEN LET start == FindFenceJson(raw_output) + 2
             end == FindFence(raw_output, start)
         IN  Strip(Slice(raw_output, start, end))
    ELSE IF HasFence(raw_output)
    THEN LET start == FindFence(raw_output, 0) + 1
             end == FindFence(raw_output, start)
         IN  Strip(Slice(raw_output, start, end))
    ELSE Strip(raw_output)

\* json.loads(json_str): the text must be exactly one JSON document.
JsonLoads(json_str) ==
    IF Len(json_str) = 1 /\ json_str[1].k = "doc" /\ json_str[1].doc.t # "invalid"
    THEN [ok |-> TRUE, v |-> json_str[1].doc, exc |-> ""]
    ELSE [ok |-> FALSE, v |-> NotJson, exc |-> "JSONDecodeError"]

NoOutput == AgentOutput(0, "", <<>>)

OutputReturned(out) == [ok |-> TRUE, v |-> out, exc |-> ""]

OutputRaised(e) == [ok |-> FALSE, v |-> NoOutput, exc |-> e]

\* The try block of _parse_agent_output (lines 158-178).
ParseTryBlock(raw_output) ==
    LET loaded == JsonLoads(ExtractJsonStr(raw_output))
        data == loaded.v
    IN  IF ~loaded.ok THEN OutputRaised(loaded.exc)
        ELSE IF data.t # "obj" THEN OutputRaised("AttributeError")
        ELSE LET score == to_int_1_100(DictGet(data, "score_1_to_100", PyInt(NeutralScore)))
                 rationale == DictGet(data, "rationale", PyStr("No rationale provided"))
                 notes == DictGet(data, "notes", PyList(<<>>))
             IN  IF ~score.ok THEN OutputRaised(score.exc)
                 ELSE IF ~AgentOutputValid(score.v, rationale, notes)
                 THEN OutputRaised("ValidationError")
                 ELSE OutputReturned(AgentOutput(score.v, rationale.s, notes.l))

\* f"Parse error: {str(e)}"
ParseErrorRationale(exc) ==
    CASE exc = "JSONDecodeError" -> "Parse error: JSONDecodeError"
      [] exc = "AttributeError" -> "Parse error: AttributeError"
      [] exc = "OverflowError" -> "Parse error: OverflowError"
      [] exc = "ValidationError" -> "Parse error: ValidationError"
      [] OTHER -> "Parse error"

\* The except branch of _parse_agent_output (lines 179-186).
ParseFallback(exc) ==
    AgentOutput(NeutralScore, ParseErrorRationale(exc), <<"Failed to parse agent response">>)

\* A plausible slip: the except clause catches the JSON decoding error only.
_parse_agent_output_narrow_except(raw_output) ==
    LET body == ParseTryBlock(raw_output)
    IN  IF body.ok \/ body.exc # "JSONDecodeError" THEN body
        ELSE OutputReturned(ParseFallback(body.exc))

\* _parse_agent_output(raw_output)
_parse_agent_output(raw_output) ==
    LET body == ParseTryBlock(raw_output)
    IN  IF body.ok THEN body ELSE OutputReturned(ParseFallback(body.exc))

(***************************************************************************)
(* la_socrata.py: the $where clause.  A string is a sequence of pieces;    *)
(* a zip code is a sequence of single characters.                          *)
(***************************************************************************)
NoneStr == [isNone |-> TRUE, s |-> <<>>]

SomeStr(s) == [isNone |-> FALSE, s |-> s]

DatasetConfig(dataset_id, zip_fields, result_key) ==
    [dataset_id |-> dataset_id, zip_fields |-> zip_fields, result_key |-> result_key]

ZipField(field_name, mode) == [field_name |-> field_name, mode |-> mode]

DATASETS ==
    << DatasetConfig("pi9x-tg5x", <<ZipField("zip_code", "eq")>>, "permits"),
       DatasetConfig("9w5z-rg2h", <<>>, "inspections"),
       DatasetConfig("3f9m-afei", <<ZipField("zip_code", "eq_numeric")>>, "coo"),
       DatasetConfig("u82d-eh7z", <<ZipField("zip", "like_prefix")>>, "code_open"),
       DatasetConfig("rken-a55j", <<ZipField("zip", "like_prefix")>>, "code_closed") >>

Digits == {"0", "1", "2", "3", "4", "5", "6", "7", "8", "9"}

\* zip_code.replace("'", "''")
RECURSIVE EscapeQuotes(_)
EscapeQuotes(chars) ==
    IF chars = <<>> THEN <<>>
    ELSE (IF Head(chars) = "'" THEN <<"'", "'">> ELSE <<Head(chars)>>)
         \o EscapeQuotes(Tail(chars))

\* str.isdigit()
IsDigit(chars) == chars # <<>> /\ \A i \in 1..Len(chars) : chars[i] \in Digits

\* A plausible slip: a field of mode eq_numeric gets no clause when the zip code is
\* not numeric.
RECURSIVE ZipClausesSkipNonNumeric(_, _, _)
ZipClausesSkipNonNumeric(zip_fields, escaped, i) ==
    IF i > Len(zip_fields) THEN <<>>
    ELSE LET field_name == zip_fields[i].field_name
             mode == IF zip_fields[i].mode = "" THEN "like_prefix"
                     ELSE zip_fields[i].mode
             rest == ZipClausesSkipNonNumeric(zip_fields, escaped, i + 1)
         IN  IF field_name = "" THEN rest
             ELSE IF mode = "eq_numeric"
             THEN IF IsDigit(escaped) THEN <<(<<field_name, " = ">> \o escaped)>> \o rest
                  ELSE rest
             ELSE IF mode = "eq"
             THEN <<(<<field_name, " = ", "'">> \o escaped \o <<"'">>)>> \o rest
             ELSE <<(<<field_name, " like ", "'">> \o escaped \o <<"%", "'">>)>> \o rest

\* One pass of the loop over cfg.zip_fields (lines 168-177): the clauses
\* appended for the fields from position i on.
RECURSIVE ZipClauses(_, _, _)
ZipClauses(zip_fields, escaped, i) ==
    IF i > Len(zip_fields) THEN <<>>
    ELSE LET field_name == zip_fields[i].field_name
             mode == IF zip_fields[i].mode = "" THEN "like_prefix"
                     ELSE zip_fields[i].mode
             rest == ZipClauses(zip_fields, escaped, i + 1)
         IN  IF field_name = "" THEN rest
             ELSE IF mode = "eq_numeric" /\ IsDigit(escaped)
             THEN <<(<<field_name, " = ">> \o escaped)>> \o rest
             ELSE IF mode = "eq"
             THEN <<(<<field_name, " = ", "'">> \o escaped \o <<"'">>)>> \o rest
             ELSE <<(<<field_name, " like ", "'">> \o escaped \o <<"%", "'">>)>> \o rest

\* " OR ".join(clauses)
RECURSIVE JoinOr(_)
JoinOr(clauses) ==
    IF clauses = <<>> THEN <<>>
    ELSE IF Len(clauses) = 1 THEN clauses[1]
    ELSE clauses[1] \o <<" OR ">> \o JoinOr(Tail(clauses))

\* A plausible slip: the zip code goes into the clause without escaping.
_build_where_clause_unescaped(cfg, zip_code) ==
    IF zip_code.isNone \/ zip_code.s = <<>> THEN NoneStr
    ELSE LET clauses == ZipClauses(cfg.zip_fields, zip_code.s, 1)
         IN  IF clauses # <<>> THEN SomeStr(JoinOr(clauses)) ELSE NoneStr

\* LASocrataTool._build_where_clause(cfg, zip_code)
_build_where_clause(cfg, zip_code) ==
    IF zip_code.isNone \/ zip_code.s = <<>> THEN NoneStr
    ELSE LET escaped == EscapeQuotes(zip_code.s)
             clauses == ZipClauses(cfg.zip_fields, escaped, 1)
         IN  IF clauses # <<>> THEN SomeStr(JoinOr(clauses)) ELSE NoneStr

\* Lines 105-108 of _fetch_dataset: the "$where" entry of the request params
\* (NoneStr when the key is not in params).
WhereParam(cfg, zip_code) ==
    LET where_clause == _build_where_clause(cfg, zip_code)
    IN  IF ~where_clause.isNone /\ where_clause.s # <<>> THEN where_clause ELSE NoneStr

(***************************************************************************)
(* Inputs of the pure functions.                                           *)
(***************************************************************************)
ALL_AGENT_KEYS == <<"investment", "location", "news", "vc_risk", "construction">>

AgentKeys == {ALL_AGENT_KEYS[i] : i \in 1..Len(ALL_AGENT_KEYS)}

\* Numbers are tried in tenths, from -MaxTenths/10 to MaxTenths/10.
MaxTenths == 1600

\* The general score and weight maps range over the first NumKeys keys.
NumKeys == 3

\* Weights range over 0..MaxWeight hundredths.
MaxWeight == 2

MapKeys == {ALL_AGENT_KEYS[i] : i \in 1..Min2(NumKeys, Len(ALL_AGENT_KEYS))}

\* The values to_int_1_100 is tried on that are no finite number.
ToIntSpecials ==
    {PyNone, PyStr("abc"), PyStr("75"), PyList(<<>>), PyDict, PyNaN, PyInf, PyNegInf,
     PyBool(TRUE), PyBool(FALSE)}

ExampleScores ==
    [k \in AgentKeys |->
        CASE k = "investment" -> 80
          [] k = "location" -> 70
          [] k = "news" -> 60
          [] k = "vc_risk" -> 75
          [] k = "construction" -> 65]

ScoreChoices == {-20, 1, 37, 100}

ConfidenceChoices == {30, 40, 55, 60, 70, 71, 72, 85}

Pending == [ok |-> FALSE, v |-> 0, exc |-> "pending"]

Call(fn, arg) == [fn |-> fn, arg |-> arg, done |-> FALSE, ret |-> Pending]

NoCall == Call("none", 0)

\* The scheduler's variables while no run is modelled.
RunOff ==
    /\ pc = "off"
    /\ listing = [address |-> ""]
    /\ enabled_agents = [isNone |-> TRUE, keys |-> {}]
    /\ la_city_records = "None"
    /\ outputs = <<>>
    /\ raw_outputs = <<>>
    /\ news_response = [isNone |-> TRUE, items |-> 0, note |-> ""]
    /\ serper_missing = FALSE
    /\ task_labels = <<>>
    /\ tasks_output = <<>>
    /\ socrata_token = FALSE
    /\ la_fetch = [called |-> FALSE, outcome |-> "", requested |-> FALSE]
    /\ report = [made |-> FALSE]

\* No dataset client and no /analyze request is modelled.
FetchOff == fetch = [pc |-> "off"]

ApiOff == api = [pc |-> "off"]

\* No search_news call and no use of the filters file is modelled.
SerperOff == serper = [pc |-> "off"]

FiltersOff == filters = [pc |-> "off"]

\* No shared PropertyAnalysisCrew is modelled.
CrewOff == crew = [pc |-> "off"]

Finish(result) == call' = [call EXCEPT !.done = TRUE, !.ret = result]

Apply_to_int_1_100 ==
    /\ call.fn = "to_int_1_100" /\ ~call.done
    /\ Finish(to_int_1_100(call.arg))
    /\ UNCHANGED <<runVars, fetch, api, serper, filters, crew>>

Apply_weighted_overall ==
    /\ call.fn = "weighted_overall" /\ ~call.done
    /\ Finish(weighted_overall(call.arg.scores, call.arg.weights))
    /\ UNCHANGED <<runVars, fetch, api, serper, filters, crew>>

Apply_calculate_confidence ==
    /\ call.fn = "calculate_confidence" /\ ~call.done
    /\ Finish(calculate_confidence(call.arg))
    /\ UNCHANGED <<runVars, fetch, api, serper, filters, crew>>

\* The score maps and weight maps are all partial maps over MapKeys, plus
\* the five-key example under the default weights.
InitScoring ==
    /\ RunOff /\ FetchOff /\ ApiOff /\ SerperOff /\ FiltersOff /\ CrewOff
    /\ \/ \E a \in ToIntSpecials : call = Call("to_int_1_100", a)
       \/ \E n \in (0 - MaxTenths)..MaxTenths : call = Call("to_int_1_100", PyNum(n, 10))
       \/ \E D \in SUBSET MapKeys, E \in SUBSET MapKeys :
             \E sc \in [D -> ScoreChoices], w \in [E -> 0..MaxWeight] :
                 call = Call("weighted_overall", [scores |-> sc, weights |-> w])
       \/ call = Call("weighted_overall", [scores |-> ExampleScores, weights |-> get_weights])
       \/ \E D \in SUBSET MapKeys :
             \E sc \in [D -> ConfidenceChoices] : call = Call("calculate_confidence", sc)

NextScoring ==
    \/ Apply_to_int_1_100
    \/ Apply_weighted_overall
    \/ Apply_calculate_confidence

SpecScoring == InitScoring /\ [][NextScoring]_vars

Done(fn) == call.fn = fn /\ call.done

Clamp(x) == Max2(MinScore, Min2(MaxScore, x))

Abs(x) == IF x < 0 THEN 0 - x ELSE x

\* C5: to_int_1_100 never raises and always returns an integer in [1,100];
\* None gives 50, a non-numeric value gives 50, and a number x (an infinity
\* included) gives an integer nearest to x, clamped to [1,100].
C5_ToScoreTotal ==
    Done("to_int_1_100") =>
        LET x == call.arg
            r == call.ret
        IN  /\ r.ok
            /\ r.v \in MinScore..MaxScore
            /\ x.t = "none" => r.v = NeutralScore
            /\ x.t \in {"str", "list", "badlist", "dict", "nan"} => r.v = NeutralScore
            /\ x.t = "inf" => r.v = MaxScore
            /\ x.t = "ninf" => r.v = MinScore
            /\ x.t = "num" =>
                  \E i \in ((x.n \div x.d) - 1)..((x.n \div x.d) + 1) :
                      /\ 2 * Abs(i * x.d - x.n) <= x.d
                      /\ r.v = Clamp(i)

EffectiveScore(scores, k) == IF k \in DOMAIN scores THEN scores[k] ELSE NeutralScore

\* sum over k in weights of effective score * weight, and of weight.
WeightedSum(scores, weights) ==
    SumValues([k \in DOMAIN weights |-> EffectiveScore(scores, k) * weights[k]],
              DOMAIN weights)

WeightSum(weights) == SumValues(weights, DOMAIN weights)

\* The formula part of C7: the result is toScore(weighted mean over the keys
\* of weights), and 50 when scores is empty, weights is empty or the weights
\* sum to 0.
C7_Formula(scores, weights, r) ==
    /\ r.ok
    /\ (DOMAIN scores = {} \/ DOMAIN weights = {} \/ WeightSum(weights) = 0)
          => r.v = NeutralScore
    /\ WeightSum(weights) > 0
          => r.v = to_int_1_100(PyNum(WeightedSum(scores, weights), WeightSum(weights))).v

ScoresInRange(scores) == \A k \in DOMAIN scores : scores[k] \in MinScore..MaxScore

\* The result lies between the smallest and the largest effective score.
BetweenEffective(scores, weights, r) ==
    /\ \E k \in DOMAIN weights : EffectiveScore(scores, k) <= r.v
    /\ \E k \in DOMAIN weights : EffectiveScore(scores, k) >= r.v

\* C7 as stated: the formula, and with scores in [1,100] the result lies
\* between the smallest and the largest effective score, for all score maps
\* and all non-negative weight maps (weights that sum to 0 included).
C7_WeightedOverallAsStated ==
    Done("weighted_overall") =>
        LET scores == call.arg.scores
            weights == call.arg.weights
        IN  /\ C7_Formula(scores, weights, call.ret)
            /\ (ScoresInRange(scores) /\ DOMAIN weights # {})
                  => BetweenEffective(scores, weights, call.ret)

\* C7 amended: weighted_overall(scores, weights) is toScore of the weighted
\* mean of the effective scores over the keys of weights, and 50 when scores
\* is empty, weights is empty or the weights sum to 0; with scores in [1,100]
\* and a positive weight sum the result lies between the smallest and the
\* largest effective score.
C7_WeightedOverall ==
    Done("weighted_overall") =>
        LET scores == call.arg.scores
            weights == call.arg.weights
        IN  /\ C7_Formula(scores, weights, call.ret)
            /\ (ScoresInRange(scores) /\ WeightSum(weights) > 0)
                  => BetweenEffective(scores, weights, call.ret)

\* A key of scores that is absent from weights, a key of weights that is
\* absent from scores, and a positive weight sum.
C7_Witness ==
    /\ Done("weighted_overall")
    /\ DOMAIN call.arg.scores \ DOMAIN call.arg.weights # {}
    /\ DOMAIN call.arg.weights \ DOMAIN call.arg.scores # {}
    /\ WeightSum(call.arg.weights) > 0
    /\ ScoresInRange(call.arg.scores)
    /\ call.ret.v # NeutralScore

\* The thresholds of C8: 'Low' for fewer than 2 scores; otherwise, with
\* s the population standard deviation (s^2 = (n*sum(x^2) - sum(x)^2) / n^2),
\* 'High' iff s < 10, 'Medium' iff 10 <= s < 20, 'Low' iff s >= 20.
C8_Thresholds ==
    Done("calculate_confidence") =>
        LET scores == call.arg
            keys == DOMAIN scores
            n == Cardinality(keys)
            S == SumValues(scores, keys)
            Q == SumValues([k \in keys |-> scores[k] * scores[k]], keys)
            varTimesN2 == n * Q - S * S
        IN  IF n < 2 THEN call.ret = "Low"
            ELSE /\ call.ret = "High" <=> varTimesN2 < 100 * n * n
                 /\ call.ret = "Medium" <=>
                       (100 * n * n <= varTimesN2 /\ varTimesN2 < 400 * n * n)
                 /\ call.ret = "Low" <=> varTimesN2 >= 400 * n * n

\* Scores {70, 85, 55} give 'Medium'.
C8_Witness ==
    /\ Done("calculate_confidence")
    /\ DOMAIN call.arg = {"investment", "location", "news"}
    /\ {call.arg[k] : k \in DOMAIN call.arg} = {70, 85, 55}
    /\ call.ret = "Medium"

\* Scores {70, 72, 71} give 'High', {70, 85, 55} 'Medium', one score 'Low'.
C8_Examples ==
    Done("calculate_confidence") =>
        LET vals == {call.arg[k] : k \in DOMAIN call.arg}
            n == Cardinality(DOMAIN call.arg)
        IN  /\ (n = 3 /\ vals = {70, 72, 71}) => call.ret = "High"
            /\ (n = 3 /\ vals = {70, 85, 55}) => call.ret = "Medium"
            /\ n = 1 => call.ret = "Low"

\* C8: calculate_confidence returns 'Low' for fewer than 2 scores; otherwise
\* 'High' iff the population standard deviation s < 10, 'Medium' iff
\* 10 <= s < 20 and 'Low' iff s >= 20; {70,72,71} give 'High' and {70,85,55}
\* give 'Medium'.
C8_Confidence == C8_Thresholds /\ C8_Examples

(***************************************************************************)
(* Inputs of _parse_agent_output.                                          *)
(***************************************************************************)
\* Every text of at most MaxTextLen tokens over the pattern alphabet is tried.
MaxTextLen == 4

ScoreFields ==
    {Absent, PyNone, PyInt(42), PyInt(150), PyNum(756, 10), PyStr("abc"), PyInf}

RationaleFields == {Absent, PyNone, PyStr("r"), PyStr(""), PyInt(5)}

NotesFields == {Absent, PyNone, PyList(<<"a", "b">>), PyList(<<>>), PyStr("n"), PyBadList}

ObjectDocs ==
    {JsonObj(sc, ra, no) : sc \in ScoreFields, ra \in RationaleFields, no \in NotesFields}

AllDocs ==
    ObjectDocs \cup {JsonDoc("arr", Absent, Absent, Absent),
                     JsonDoc("jstr", Absent, Absent, Absent)}

\* {"score_1_to_100": 42, "rationale": "r", "notes": ["a", "b"]}
ExampleDoc == JsonObj(PyInt(42), PyStr("r"), PyList(<<"a", "b">>))

\* A second valid object, to tell which document of a text was read.
OtherDoc == JsonObj(PyInt(7), PyStr("other"), PyList(<<>>))

PatternTokens == {Fence, JsonWord, Ws, Txt, DocTok(ExampleDoc), DocTok(OtherDoc)}

\* Each document bare, in a ```json fence, in a plain fence, and in a
\* ```json fence inside prose.
WrappedTexts(d) ==
    { <<DocTok(d)>>,
      <<Fence, JsonWord, Ws, DocTok(d), Ws, Fence>>,
      <<Fence, Ws, DocTok(d), Ws, Fence>>,
      <<Txt, Ws, Fence, JsonWord, Ws, DocTok(d), Ws, Fence, Ws, Txt>> }

Apply_parse_agent_output ==
    /\ call.fn = "_parse_agent_output" /\ ~call.done
    /\ Finish(_parse_agent_output(call.arg))
    /\ UNCHANGED <<runVars, fetch, api, serper, filters, crew>>

InitParse ==
    /\ RunOff /\ FetchOff /\ ApiOff /\ SerperOff /\ FiltersOff /\ CrewOff
    /\ \/ \E n \in 0..MaxTextLen : \E text \in [1..n -> PatternTokens] :
             call = Call("_parse_agent_output", text)
       \/ \E d \in AllDocs : \E text \in WrappedTexts(d) :
             call = Call("_parse_agent_output", text)

NextParse == Apply_parse_agent_output

SpecParse == InitParse /\ [][NextParse]_vars

ParseErrorRationales ==
    {"Parse error: JSONDecodeError", "Parse error: AttributeError",
     "Parse error: OverflowError", "Parse error: ValidationError", "Parse error"}

\* The extracted text is one JSON object whose fields, where present, have
\* the types of the schema: a finite number (or null) for the score, a string
\* for the rationale, a list of strings for the notes.
WellFormedObject(json_str) ==
    /\ Len(json_str) = 1
    /\ json_str[1].k = "doc"
    /\ json_str[1].doc.t = "obj"
    /\ json_str[1].doc.score.t \notin {"inf", "ninf"}
    /\ json_str[1].doc.rationale.t \in {"absent", "str"}
    /\ json_str[1].doc.notes.t \in {"absent", "list"}

\* C3: _parse_agent_output never raises and never returns None: it returns an
\* AgentOutput with score in [1,100]; when the text cannot be extracted,
\* parsed or validated the result has score 50, a rationale describing the
\* parse failure and exactly one non-empty note.
C3_ParseNeverRaises ==
    Done("_parse_agent_output") =>
        LET r == call.ret
        IN  /\ r.ok
            /\ r.v.score_1_to_100 \in MinScore..MaxScore
            /\ ~WellFormedObject(ExtractJsonStr(call.arg)) =>
                  /\ r.v.score_1_to_100 = NeutralScore
                  /\ r.v.rationale \in ParseErrorRationales
                  /\ Len(r.v.notes) = 1
                  /\ r.v.notes[1] # ""

\* The garbage text 'not json at all' has been parsed into the fallback.
C3_Witness ==
    /\ Done("_parse_agent_output")
    /\ call.arg = <<Txt>>
    /\ call.ret.ok
    /\ call.ret.v = ParseFallback("JSONDecodeError")

\* The positions of the ```json markers and of the ``` markers of a text.
JsonMarkers(raw) ==
    {i \in 1..(Len(raw) - 1) : raw[i] = Fence /\ raw[i + 1] = JsonWord}

Markers(raw) == {i \in 1..Len(raw) : raw[i] = Fence}

Least(S) == CHOOSE i \in S : \A j \in S : i <= j

\* Whitespace at neither end.
Stripped(text) == text = <<>> \/ (Head(text) # Ws /\ text[Len(text)] # Ws)

\* text is inner with whitespace removed at both ends, and nothing else.
IsStripOf(text, inner) ==
    /\ Stripped(text)
    /\ \E a, b \in 0..Len(inner) :
          /\ a + b + Len(text) = Len(inner)
          /\ \A i \in 1..a : inner[i] = Ws
          /\ \A i \in 1..b : inner[Len(inner) + 1 - i] = Ws
          /\ \A i \in 1..Len(text) : text[i] = inner[a + i]

\* The text the claim designates, given as the set of texts that fit it:
\* empty when the marker chosen has no marker after it.
StatedJsonTexts(raw) ==
    LET candidates == {SubSeq(raw, a, b) : a \in 1..(Len(raw) + 1), b \in 0..Len(raw)}
        fits(text) ==
            IF JsonMarkers(raw) # {}
            THEN LET m == Least(JsonMarkers(raw))
                     after == {j \in Markers(raw) : j > m + 1}
                 IN  after # {} /\ IsStripOf(text, SubSeq(raw, m + 2, Least(after) - 1))
            ELSE IF Markers(raw) # {}
            THEN LET m == Least(Markers(raw))
                     after == {j \in Markers(raw) : j > m}
                 IN  after # {} /\ IsStripOf(text, SubSeq(raw, m + 1, Least(after) - 1))
            ELSE IsStripOf(text, raw)
    IN  {text \in candidates : fits(text)}

\* C26: when the raw text has a ```json marker, the text handed to the JSON
\* parser is what stands between the first such marker and the next ```
\* marker; else, when it has a ``` marker, what stands between the first two
\* markers; else the whole text; in each case without the whitespace at its
\* ends.  The result is the parse of that text, so the content of a fence
\* is read instead of any JSON outside it.
C26_ExtractionOrder ==
    Done("_parse_agent_output") =>
        \A text \in StatedJsonTexts(call.arg) :
            /\ ExtractJsonStr(call.arg) = text
            /\ call.ret = _parse_agent_output(text)

\* A plain fence holding one object, with another object before it: the
\* object inside the fence was read.
C26_Witness ==
    /\ Done("_parse_agent_output")
    /\ call.arg = <<DocTok(OtherDoc), Fence, DocTok(ExampleDoc), Fence>>
    /\ StatedJsonTexts(call.arg) = {<<DocTok(ExampleDoc)>>}
    /\ call.ret.v = AgentOutput(42, "r", <<"a", "b">>)

\* C4: whenever the extracted text parses as a JSON object, the result has
\* score = toScore(score field, 50 if absent or null), rationale = the
\* rationale field or 'No rationale provided' if absent or null, notes = the
\* notes field or [] if absent or null.
C4_ObjectFieldsDefaulted ==
    Done("_parse_agent_output") =>
        LET loaded == JsonLoads(ExtractJsonStr(call.arg))
            data == loaded.v
            orDefault(v, default) == IF v.t \in {"absent", "none"} THEN default ELSE v
        IN  (loaded.ok /\ data.t = "obj"
                /\ data.score.t \in {"absent", "none", "num"}
                /\ data.rationale.t \in {"absent", "none", "str"}
                /\ data.notes.t \in {"absent", "none", "list"}) =>
                /\ call.ret.ok
                /\ call.ret.v.score_1_to_100
                      = to_int_1_100(orDefault(data.score, PyInt(NeutralScore))).v
                /\ call.ret.v.rationale
                      = orDefault(data.rationale, PyStr("No rationale provided")).s
                /\ call.ret.v.notes = orDefault(data.notes, PyList(<<>>)).l

(***************************************************************************)
(* Inputs of the $where clause.                                            *)
(***************************************************************************)
\* Zip codes of at most MaxZipLen characters are tried.
MaxZipLen == 3

\* Dataset descriptors with at most MaxZipFields zip fields are tried.
MaxZipFields == 2

ZipChars == {"9", "a", "'"}

Zip91403 == <<"9", "1", "4", "0", "3">>

FixedZips == {NoneStr, SomeStr(Zip91403)}

ZipFieldChoices ==
    {ZipField(f, m) : f \in {"zip_code", "zip", ""},
                      m \in {"eq", "eq_numeric", "like_prefix", ""}}


Apply_build_where_clause ==
    /\ call.fn = "where" /\ ~call.done
    /\ Finish(WhereParam(call.arg.cfg, call.arg.zip_code))
    /\ UNCHANGED <<runVars, fetch, api, serper, filters, crew>>

\* Every descriptor (the five configured ones, and every descriptor of at
\* most MaxZipFields fields) with every zip code.
InitWhere ==
    /\ RunOff /\ FetchOff /\ ApiOff /\ SerperOff /\ FiltersOff /\ CrewOff
    /\ \E cfg \in {DATASETS[i] : i \in 1..Len(DATASETS)}
                 \cup {DatasetConfig("test", zf, "test") :
                         zf \in UNION {[1..m -> ZipFieldChoices] : m \in 0..MaxZipFields}} :
          \/ \E z \in FixedZips : call = Call("where", [cfg |-> cfg, zip_code |-> z])
          \/ \E n \in 0..MaxZipLen : \E z \in [1..n -> ZipChars] :
                call = Call("where", [cfg |-> cfg, zip_code |-> SomeStr(z)])

NextWhere == Apply_build_where_clause

SpecWhere == InitWhere /\ [][NextWhere]_vars

Supplied(zip_code) == ~zip_code.isNone /\ zip_code.s # <<>>

AllDigits(z) == z # <<>> /\ \A i \in 1..Len(z) : z[i] \in Digits

\* The clause C9 states for one zip field, with the zip code written as
\* `lit` inside the quotes.
StatedClause(field, mode, z, lit) ==
    CASE mode = "eq" -> <<field, " = ", "'">> \o lit \o <<"'">>
      [] mode = "eq_numeric" -> <<field, " = ">> \o z
      [] mode = "like_prefix" -> <<field, " like ", "'">> \o lit \o <<"%", "'">>

\* C9 covers the zip fields with a name and one of the three modes,
\* eq_numeric only with an all-digit zip code.
C9_Covers(cfg, z) ==
    \A i \in 1..Len(cfg.zip_fields) :
        /\ cfg.zip_fields[i].field_name # ""
        /\ cfg.zip_fields[i].mode \in {"eq", "eq_numeric", "like_prefix"}
        /\ cfg.zip_fields[i].mode = "eq_numeric" => AllDigits(z)

RECURSIVE StatedWhere(_, _, _, _)
StatedWhere(zip_fields, z, lit, i) ==
    LET c == StatedClause(zip_fields[i].field_name, zip_fields[i].mode, z, lit)
    IN  IF i = Len(zip_fields) THEN c
        ELSE c \o <<" OR ">> \o StatedWhere(zip_fields, z, lit, i + 1)

\* The same characters, each apostrophe written twice.
Doubled(z) ==
    LET idx == {i \in 1..Len(z) : z[i] = "'"}
        pos(i) == i + Cardinality({j \in idx : j < i})
        n == Len(z) + Cardinality(idx)
    IN  [p \in 1..n |->
            IF \E i \in 1..Len(z) : pos(i) = p
            THEN z[CHOOSE i \in 1..Len(z) : pos(i) = p]
            ELSE "'"]

C9_Shape(lit(_)) ==
    Done("where") =>
        LET cfg == call.arg.cfg
            zip_code == call.arg.zip_code
        IN  /\ (~Supplied(zip_code) \/ cfg.zip_fields = <<>>) => call.ret.isNone
            /\ (Supplied(zip_code) /\ cfg.zip_fields # <<>> /\ C9_Covers(cfg, zip_code.s))
                  => /\ ~call.ret.isNone
                     /\ call.ret.s
                           = StatedWhere(cfg.zip_fields, zip_code.s, lit(zip_code.s), 1)

Verbatim(z) == z

\* The five configured datasets for z = '91403'.
C9_Example ==
    (Done("where") /\ call.arg.zip_code = SomeStr(Zip91403)) =>
        LET key == call.arg.cfg.result_key
        IN  /\ key = "permits" =>
                  call.ret = SomeStr(<<"zip_code", " = ", "'">> \o Zip91403 \o <<"'">>)
            /\ key = "inspections" => call.ret = NoneStr
            /\ key = "coo" => call.ret = SomeStr(<<"zip_code", " = ">> \o Zip91403)
            /\ key \in {"code_open", "code_closed"} =>
                  call.ret = SomeStr(<<"zip", " like ", "'">> \o Zip91403 \o <<"%", "'">>)

\* C9 as stated: the zip code z appears verbatim between the quotes.
C9_WhereAsStated == C9_Shape(Verbatim) /\ C9_Example

\* C9 amended: as stated, with every apostrophe of z written twice inside
\* the quoted forms ('eq' gives field = 'e', 'like_prefix' gives
\* field like 'e%', e being z with each ' doubled).
C9_Where == C9_Shape(Doubled) /\ C9_Example

\* A two-field descriptor and a zip code holding an apostrophe.
C9_Witness ==
    /\ Done("where")
    /\ Len(call.arg.cfg.zip_fields) = 2
    /\ C9_Covers(call.arg.cfg, call.arg.zip_code.s)
    /\ Supplied(call.arg.zip_code)
    /\ \E i \in 1..Len(call.arg.zip_code.s) : call.arg.zip_code.s[i] = "'"
    /\ ~call.ret.isNone

NumericModeOnly(cfg) ==
    /\ Len(cfg.zip_fields) = 1
    /\ cfg.zip_fields[1].mode = "eq_numeric"
    /\ cfg.zip_fields[1].field_name # ""

\* C10 as stated: mode eq_numeric with a zip code that is not purely numeric
\* sends no $where parameter.
C10_NumericModeOmitsClause ==
    (Done("where") /\ NumericModeOnly(call.arg.cfg) /\ Supplied(call.arg.zip_code)
        /\ ~AllDigits(call.arg.zip_code.s))
    => call.ret.isNone

\* C10 amended: mode eq_numeric with a supplied zip code that is not purely
\* numeric sends the prefix match `field like 'e%'` for that field (e being
\* z with each apostrophe doubled) instead of omitting the filter.
C10_NumericModeFallsBackToPrefix ==
    (Done("where") /\ NumericModeOnly(call.arg.cfg) /\ Supplied(call.arg.zip_code)
        /\ ~AllDigits(call.arg.zip_code.s))
    => call.ret = SomeStr(<<call.arg.cfg.zip_fields[1].field_name, " like ", "'">>
                          \o Doubled(call.arg.zip_code.s) \o <<"%", "'">>)

C10_Witness ==
    /\ Done("where")
    /\ NumericModeOnly(call.arg.cfg)
    /\ call.arg.zip_code = SomeStr(<<"9", "a">>)
    /\ ~call.ret.isNone

\* dict[key] = value
Put(dict, key, value) == (key :> value) @@ dict

(***************************************************************************)
(* la_socrata.py: LASocrataTool, the dataset client.                       *)
(***************************************************************************)
\* LASocrataTool(app_token=..., ...) with SOCRATA_APP_TOKEN set or not in the
\* environment (lines 52-54): app_token and env_token tell whether a
\* non-empty token is given.  The result is the client's token source.
LASocrataTool(app_token, env_token) ==
    IF ~(app_token \/ env_token)
    THEN [ok |-> FALSE, v |-> "", exc |-> "LASocrataError"]
    ELSE [ok |-> TRUE, v |-> IF app_token THEN "app_token" ELSE "SOCRATA_APP_TOKEN", exc |-> ""]

(***************************************************************************)
(* la_socrata.py: one HTTP exchange and one attempt of _fetch_dataset.     *)
(*                                                                         *)
(* A GET ends with a response (status and body) or with a transport error  *)
(* (requests.Timeout, requests.ConnectionError).  Bodies: "rows" (a JSON   *)
(* list of two rows), "empty" (the JSON list []), "object" (valid JSON     *)
(* that is no list), "invalid" (no JSON).  Durations are in tenths of a    *)
(* second.  Status 0 stands for None.                                      *)
(***************************************************************************)
DEFAULT_RETRIES == 2

HttpResponse(status, body) == [exc |-> "", status |-> status, body |-> body]

TransportError(e) == [exc |-> e, status |-> 0, body |-> ""]

\* A plausible slip: every error status is retried.
AnyErrorStatus == 400..599

\* Line 138: the statuses that are retried.
TransientStatuses == {429, 500, 502, 503, 504}

\* response.raise_for_status() raises HTTPError for a 4xx or 5xx status.
RaisesForStatus(response) == response.status \in 400..599

\* Line 137: exc.response.status_code if exc.response else None.  The
\* truth value of a requests.Response is its ok attribute, false for every
\* status raise_for_status refuses; the response of an injected session
\* ("stub") is a plain object, which is true.
StatusSeen(session, response) ==
    LET truthy == IF session = "requests" THEN ~RaisesForStatus(response) ELSE TRUE
    IN  IF truthy THEN response.status ELSE 0

\* response.json() and the isinstance check of lines 131-135.
Rows(body) == IF body = "rows" THEN <<"row", "row">> ELSE <<>>

\* The LASocrataError messages of lines 148-154.
StatusMessage(dataset_id, status) ==
    [dataset_id |-> dataset_id, text |-> "request failed with status", status |-> status]

InvalidJsonMessage(dataset_id) ==
    [dataset_id |-> dataset_id, text |-> "returned invalid JSON", status |-> 0]

NoMessage == [dataset_id |-> "", text |-> "", status |-> 0]

AttemptResult(gets, final, end, rows, sleep, message) ==
    [gets |-> gets, final |-> final, end |-> end, rows |-> rows, sleep |-> sleep,
     message |-> message]

\* Lines 129-154: what one attempt does with the response it ended up with.
\* end: "rows" (return), "retry" (sleep and continue), "LASocrataError".
HandleResponse(cfg, session, retries, attempt, gets, response) ==
    IF RaisesForStatus(response)
    THEN LET status == StatusSeen(session, response)
         IN  IF status \in TransientStatuses /\ attempt < retries
             THEN AttemptResult(gets, response, "retry", <<>>, 15 * (attempt + 1), NoMessage)
             ELSE AttemptResult(gets, response, "LASocrataError", <<>>, 0,
                                StatusMessage(cfg.dataset_id, status))
    ELSE IF response.body = "invalid"
    THEN AttemptResult(gets, response, "LASocrataError", <<>>, 0,
                       InvalidJsonMessage(cfg.dataset_id))
    ELSE AttemptResult(gets, response, "rows", Rows(response.body), 0, NoMessage)

\* Lines 117-154: one pass of the loop of _fetch_dataset.  The GET of line
\* 117 gets the answer first; on a 403 the GET of lines 122-127, with the
\* token as query parameter, gets the answer fallback.  A transport error
\* of either GET leaves _fetch_dataset as it is.
Attempt(cfg, session, retries, attempt, first, fallback) ==
    IF first.exc # ""
    THEN AttemptResult(<<"header_token">>, first, first.exc, <<>>, 0, NoMessage)
    ELSE IF first.status = 403
    THEN IF fallback.exc # ""
         THEN AttemptResult(<<"header_token", "query_token">>, fallback, fallback.exc,
                            <<>>, 0, NoMessage)
         ELSE HandleResponse(cfg, session, retries, attempt,
                             <<"header_token", "query_token">>, fallback)
    ELSE HandleResponse(cfg, session, retries, attempt, <<"header_token">>, first)

(***************************************************************************)
(* la_socrata.py: LASocrataTool(...) and one call of fetch_all.            *)
(*                                                                         *)
(* fetch.pc: "new" (before the constructor), "ready" (the client exists),  *)
(*   "loop" (in the loop of line 74, at dataset ds, attempt of line 116),  *)
(*   "payload" (after the loop), "returned", "raised" (an exception left   *)
(*   fetch_all), "no_client" (the constructor raised).                     *)
(* fetch.last describes the dataset at hand: the GETs sent for it, the     *)
(* first and the decisive response of each attempt, the sleeps, how it     *)
(* ended ("pending", "rows", "error", "raised").                           *)
(***************************************************************************)
\* Retries are tried from 0 to MaxRetries.
MaxRetries == 2

\* In one call of fetch_all at most MaxFaulty datasets get a first answer
\* other than 200 with rows; fetch.faulty counts them.
MaxFaulty == 2

ResultKeys == {DATASETS[i].result_key : i \in 1..Len(DATASETS)}

NoLast == [key |-> "", gets |-> <<>>, firsts |-> <<>>, finals |-> <<>>, sleeps |-> <<>>,
           end |-> "pending"]

NewFetch(app_token, env_token, session, retries, bad, address, limit) ==
    [pc |-> "new", app_token |-> app_token, env_token |-> env_token, token |-> "",
     session |-> session, retries |-> retries, bad |-> bad,
     address |-> address, limit |-> limit, ds |-> 1, attempt |-> 0, faulty |-> 0,
     results |-> <<>>, errors |-> <<>>, counts |-> <<>>, last |-> NoLast,
     exc |-> "", payload |-> {}]

\* What the host may answer in one run: success with either kind of body, a
\* 403, the run's other error status, or no answer at all.
Responses(bad) ==
    {HttpResponse(200, b) : b \in {"rows", "empty", "object", "invalid"}}
    \cup {HttpResponse(403, ""), HttpResponse(bad, "")}
    \cup {TransportError("Timeout"), TransportError("ConnectionError")}

BadStatuses == {404} \cup TransientStatuses

\* Lines 43-61.
Construct ==
    /\ fetch.pc = "new"
    /\ LET tool == LASocrataTool(fetch.app_token, fetch.env_token)
       IN  fetch' = IF tool.ok
                    THEN [fetch EXCEPT !.pc = "ready", !.token = tool.v]
                    ELSE [fetch EXCEPT !.pc = "no_client", !.exc = tool.exc]
    /\ UNCHANGED <<call, api, serper, filters, crew, runVars>>

\* Lines 63-72: the argument checks of fetch_all.
FetchAllEnter ==
    /\ fetch.pc = "ready"
    /\ fetch' = IF fetch.address = "" \/ fetch.limit <= 0
                THEN [fetch EXCEPT !.pc = "raised", !.exc = "ValueError"]
                ELSE [fetch EXCEPT !.pc = "loop", !.ds = 1, !.attempt = 0]
    /\ UNCHANGED <<call, api, serper, filters, crew, runVars>>

\* Lines 74-82 with lines 116-154: one attempt for the dataset at hand, and
\* what fetch_all does when _fetch_dataset returns or raises.
FetchAttempt ==
    /\ fetch.pc = "loop"
    /\ fetch.ds <= Len(DATASETS)
    /\ fetch.attempt <= fetch.retries
    /\ \E first \in (IF fetch.attempt = 0 /\ fetch.faulty >= MaxFaulty
                      THEN {HttpResponse(200, "rows")} ELSE Responses(fetch.bad)) :
       \E fallback \in (IF first.exc = "" /\ first.status = 403
                         THEN Responses(fetch.bad) ELSE {first}) :
          LET cfg == DATASETS[fetch.ds]
              key == cfg.result_key
              a == Attempt(cfg, fetch.session, fetch.retries, fetch.attempt, first, fallback)
              before == IF fetch.attempt = 0 THEN [NoLast EXCEPT !.key = key]
                        ELSE fetch.last
              faulty == IF fetch.attempt = 0 /\ first # HttpResponse(200, "rows")
                        THEN fetch.faulty + 1 ELSE fetch.faulty
              logged == [before EXCEPT !.gets = @ \o a.gets,
                                       !.firsts = Append(@, first),
                                       !.finals = Append(@, a.final)]
          IN  fetch' =
                CASE a.end = "retry" ->
                       [fetch EXCEPT !.attempt = @ + 1, !.faulty = faulty,
                                     !.last = [logged EXCEPT !.sleeps = Append(@, a.sleep)]]
                  [] a.end = "rows" ->
                       [fetch EXCEPT !.results = Put(@, key, a.rows),
                                     !.counts = Put(@, key, Len(a.rows)),
                                     !.ds = @ + 1, !.attempt = 0, !.faulty = faulty,
                                     !.last = [logged EXCEPT !.end = "rows"]]
                  [] a.end = "LASocrataError" ->
                       [fetch EXCEPT !.errors = Put(@, key, a.message),
                                     !.results = Put(@, key, <<>>),
                                     !.counts = Put(@, key, 0),
                                     !.ds = @ + 1, !.attempt = 0, !.faulty = faulty,
                                     !.last = [logged EXCEPT !.end = "error"]]
                  [] OTHER ->
                       [fetch EXCEPT !.pc = "raised", !.exc = a.end, !.faulty = faulty,
                                     !.last = [logged EXCEPT !.end = "raised"]]
    /\ UNCHANGED <<call, api, serper, filters, crew, runVars>>

\* Lines 84-91: the payload; "errors" only when some dataset failed.
FetchAllReturn ==
    /\ fetch.pc = "loop"
    /\ fetch.ds > Len(DATASETS)
    /\ fetch' = [fetch EXCEPT !.pc = "returned",
                              !.payload = {"query", "results", "meta"}
                                          \cup (IF fetch.errors # <<>> THEN {"errors"} ELSE {})]
    /\ UNCHANGED <<call, api, serper, filters, crew, runVars>>

InitFetch ==
    /\ call = NoCall
    /\ RunOff /\ ApiOff /\ SerperOff /\ FiltersOff /\ CrewOff
    /\ \E tokens \in {<<FALSE, FALSE>>, <<TRUE, FALSE>>, <<FALSE, TRUE>>},
          session \in {"requests", "stub"},
          retries \in (0..MaxRetries) \cup {DEFAULT_RETRIES},
          bad \in BadStatuses,
          address \in {"", "5020 Noble"},
          limit \in {0, 50} :
          fetch = NewFetch(tokens[1], tokens[2], session, retries, bad, address, limit)

NextFetch ==
    \/ Construct
    \/ FetchAllEnter
    \/ FetchAttempt
    \/ FetchAllReturn

SpecFetch == InitFetch /\ [][NextFetch]_vars

\* fetch_all was called with a non-empty address and a positive limit.
ValidCall == fetch.pc \notin {"off", "new", "no_client"} /\ fetch.address # "" /\ fetch.limit > 0

FetchEnded == fetch.pc \in {"returned", "raised"}

\* Some attempt was made for the dataset at hand.
Attempted == fetch.pc \in {"loop", "returned", "raised"} /\ fetch.last.firsts # <<>>

\* C11: fetch_all with a non-empty address and a positive limit always ends
\* by returning a bundle, having queried all five datasets; results and
\* meta.counts have an entry for each of the five result keys, with
\* counts[k] = len(results[k]); every key in errors has an empty row list in
\* results; errors is present in the bundle exactly when some dataset
\* failed.
C11_BundleAlwaysReturned ==
    (ValidCall /\ FetchEnded) =>
        /\ fetch.pc = "returned"
        /\ fetch.ds = Len(DATASETS) + 1
        /\ DOMAIN fetch.results = ResultKeys
        /\ DOMAIN fetch.counts = ResultKeys
        /\ \A k \in ResultKeys : fetch.counts[k] = Len(fetch.results[k])
        /\ \A k \in DOMAIN fetch.errors : k \in ResultKeys /\ fetch.results[k] = <<>>
        /\ ("errors" \in fetch.payload) <=> (fetch.errors # <<>>)

IsTransient(response) == response.exc = "" /\ response.status \in {429, 500, 502, 503, 504}

FailedAtOnce(gets) ==
    /\ fetch.last.gets = gets
    /\ Len(fetch.last.firsts) = 1
    /\ fetch.last.sleeps = <<>>
    /\ fetch.last.end = "error"
    /\ fetch.last.key \in DOMAIN fetch.errors
    /\ fetch.results[fetch.last.key] = <<>>

InvalidJson(response) ==
    response.exc = "" /\ ~RaisesForStatus(response) /\ response.body = "invalid"

\* C13 as stated: when the first answer for a dataset is a 4xx status other
\* than 429, or a body that is no JSON, the dataset fails at once: one GET,
\* no sleep, and an entry in errors.
C13_PermanentFailsAtOnce ==
    Attempted =>
        LET first == fetch.last.firsts[1]
        IN  (first.exc = "" /\ (first.status \in (400..499) \ {429} \/ InvalidJson(first)))
                => FailedAtOnce(<<"header_token">>)

\* C13 amended: a 4xx status other than 403 and 429, or a body that is no
\* JSON, fails the dataset at once: one GET, no sleep, an entry in errors.
\* A 403 is followed, in the same attempt, by exactly one more GET that
\* carries the token as query parameter, and the answer to that GET
\* decides: rows (or a non-list body) succeed with no error recorded, a 4xx
\* status other than 429 or a body that is no JSON fails at once with no
\* sleep and an entry in errors.  A valid JSON body that is no list is no
\* failure: the rows are [] and no error is recorded.
C13_PermanentFailsAtOnceOr403Fallback ==
    Attempted =>
        LET first == fetch.last.firsts[1]
            final == fetch.last.finals[1]
            both == <<"header_token", "query_token">>
        IN  /\ (first.exc = "" /\ (first.status \in (400..499) \ {403, 429}
                                    \/ InvalidJson(first)))
                  => FailedAtOnce(<<"header_token">>)
            /\ (first.exc = "" /\ first.status = 403) =>
                  /\ SubSeq(fetch.last.gets, 1, 2) = both
                  /\ (final.exc = "" /\ (final.status \in (400..499) \ {429}
                                          \/ InvalidJson(final)))
                        => FailedAtOnce(both)
                  /\ (final.exc = "" /\ ~RaisesForStatus(final) /\ final.body # "invalid") =>
                        /\ fetch.last.gets = both
                        /\ fetch.last.end = "rows"
                        /\ fetch.last.key \notin DOMAIN fetch.errors
                        /\ fetch.results[fetch.last.key] = Rows(final.body)
            /\ (first.exc = "" /\ ~RaisesForStatus(first) /\ first.body = "object") =>
                  /\ fetch.last.end = "rows"
                  /\ fetch.results[fetch.last.key] = <<>>
                  /\ fetch.last.key \notin DOMAIN fetch.errors

\* fetch_all has returned; its last dataset answered 403, then rows to the
\* fallback GET, and an earlier dataset failed at once on a 404.
C13_Witness ==
    /\ fetch.pc = "returned"
    /\ fetch.session = "requests"
    /\ fetch.last.firsts = <<HttpResponse(403, "")>>
    /\ fetch.last.finals = <<HttpResponse(200, "rows")>>
    /\ fetch.last.end = "rows"
    /\ "permits" \in DOMAIN fetch.errors
    /\ fetch.bad = 404

\* C19: a timeout or connection failure of a GET degrades only the dataset
\* at hand: fetch_all does not raise, the dataset gets an empty row list and
\* an entry in errors, and the call ends by returning the bundle.
C19_TransportFailureIsolated ==
    (Attempted /\ fetch.last.finals[Len(fetch.last.finals)].exc # "") =>
        /\ fetch.pc # "raised"
        /\ fetch.last.key \in DOMAIN fetch.errors
        /\ fetch.results[fetch.last.key] = <<>>
        /\ FetchEnded => fetch.pc = "returned"

(***************************************************************************)
(* serper_news.py: search_news, one call (lines 33-72).                    *)
(*                                                                         *)
(* serper.pc: "start", "attempt" (the loop of line 45), "returned".        *)
(* The answer to an httpx.post is a response or a transport error; the     *)
(* body of a 200 answer is "news" (an object with two news items),         *)
(* "no_items" (an object without items), "list" (valid JSON that is no     *)
(* object) or "invalid" (no JSON).  An httpx.Response is always true.      *)
(***************************************************************************)
_RETRY_STATUS_CODES == {429, 500, 502, 503, 504}

_MAX_ATTEMPTS == 3

\* The note of a result: none, the missing credential, "Serper error
\* <status>", or str(exc) of another exception.
SerperNote(kind, status, exc) == [kind |-> kind, status |-> status, exc |-> exc]

NoNote == SerperNote("none", 0, "")

SerperResult(items, note) == [items |-> items, note |-> note]

SerperAnswers ==
    {HttpResponse(200, body) : body \in {"news", "no_items", "list", "invalid"}}
    \cup {HttpResponse(status, "") : status \in {301, 401, 404} \cup _RETRY_STATUS_CODES}
    \cup {TransportError(e) : e \in {"TimeoutException", "ConnectError"}}

\* random.uniform(0, 1), in tenths of a second.
Jitters == {0, 10}

RECURSIVE Pow2(_)
Pow2(n) == IF n = 0 THEN 1 ELSE 2 * Pow2(n - 1)

\* The exception raised inside the try block of lines 46-57, "" for none:
\* a transport error of httpx.post, HTTPStatusError of raise_for_status
\* (every status outside 2xx), the decoding error of response.json(), the
\* AttributeError of _extract_items on a payload that is no object.
SerperRaised(answer) ==
    IF answer.exc # "" THEN answer.exc
    ELSE IF answer.status \notin 200..299 THEN "HTTPStatusError"
    ELSE IF answer.body = "invalid" THEN "JSONDecodeError"
    ELSE IF answer.body = "list" THEN "AttributeError"
    ELSE ""

\* _extract_items(data)
_extract_items(body) == IF body = "news" THEN <<"item", "item">> ELSE <<>>

\* Lines 58-69: whether the attempt is followed by a sleep and another one.
SerperRetries(answer, attempt) ==
    /\ SerperRaised(answer) # ""
    /\ attempt < _MAX_ATTEMPTS
    /\ SerperRaised(answer) = "HTTPStatusError" => answer.status \in _RETRY_STATUS_CODES

\* Lines 57, 64 and 70: what the attempt returns when it is the last one.
SerperReturn(answer) ==
    CASE SerperRaised(answer) = "" -> SerperResult(_extract_items(answer.body), NoNote)
      [] SerperRaised(answer) = "HTTPStatusError" ->
            SerperResult(<<>>, SerperNote("Serper error", answer.status, ""))
      [] OTHER -> SerperResult(<<>>, SerperNote("str(exc)", 0, SerperRaised(answer)))

NewSerper(key) ==
    [pc |-> "start", key |-> key, attempt |-> 1, answers |-> <<>>, sleeps |-> <<>>,
     ret |-> SerperResult(<<>>, NoNote)]

\* Lines 35-43: without SERPER_API_KEY no request is made.
SearchNewsEnter ==
    /\ serper.pc = "start"
    /\ serper' = IF ~serper.key
                 THEN [serper EXCEPT !.pc = "returned",
                                     !.ret = SerperResult(<<>>, SerperNote("SERPER_API_KEY missing",
                                                                          0, ""))]
                 ELSE [serper EXCEPT !.pc = "attempt"]
    /\ UNCHANGED <<call, fetch, api, filters, crew, runVars>>

\* Lines 45-70: one pass of the loop.  (Line 72 is not reachable: the last
\* pass always returns.)
SearchNewsAttempt ==
    /\ serper.pc = "attempt"
    /\ \E answer \in SerperAnswers, jitter \in Jitters :
          serper' =
              IF SerperRetries(answer, serper.attempt)
              THEN [serper EXCEPT !.attempt = @ + 1,
                                  !.answers = Append(@, answer),
                                  !.sleeps = Append(@, 10 * Pow2(serper.attempt) + jitter)]
              ELSE [serper EXCEPT !.pc = "returned",
                                  !.answers = Append(@, answer),
                                  !.ret = SerperReturn(answer)]
    /\ UNCHANGED <<call, fetch, api, filters, crew, runVars>>

InitSerper ==
    /\ call = NoCall
    /\ RunOff /\ FetchOff /\ ApiOff /\ FiltersOff /\ CrewOff
    /\ \E key \in BOOLEAN : serper = NewSerper(key)

NextSerper ==
    \/ SearchNewsEnter
    \/ SearchNewsAttempt

SpecSerper == InitSerper /\ [][NextSerper]_vars

\* The answer was an HTTP response with a transient status.
TransientAnswer(answer) == answer.exc = "" /\ answer.status \in {429, 500, 502, 503, 504}

\* The answer was an HTTP response with another error status.
OtherErrorAnswer(answer) ==
    answer.exc = "" /\ answer.status \in 400..599 /\ ~TransientAnswer(answer)

\* C27: search_news makes at most 3 HTTP attempts, and an attempt after the
\* first only when the attempt before it ended with a transient status
\* (429, 500, 502, 503, 504); on any other HTTP error status it returns at
\* once with no items and an error note; after the last failed attempt it
\* returns no items and an error note; every result holds an item list.
C27_SearchNewsBounded ==
    LET n == Len(serper.answers)
    IN  serper.pc \in {"attempt", "returned"} =>
          /\ n <= 3
          /\ \A i \in 2..n : TransientAnswer(serper.answers[i - 1])
          /\ \A i \in 1..n :
                OtherErrorAnswer(serper.answers[i]) =>
                    /\ i = n
                    /\ serper.pc = "returned"
                    /\ serper.ret.items = <<>>
                    /\ serper.ret.note.kind # "none"
          /\ (n = 3 /\ SerperRaised(serper.answers[3]) # "") =>
                    /\ serper.pc = "returned"
                    /\ serper.ret.items = <<>>
                    /\ serper.ret.note.kind # "none"
          /\ serper.pc = "returned" => Len(serper.ret.items) \in {0, 2}

(***************************************************************************)
(* crew.py: PropertyAnalysisCrew.run_specialists, one invocation.          *)
(*                                                                         *)
(* pc: "start" (line 207), "news" (line 244), "build" (line 266),          *)
(*     "kickoff" (line 324), "fill" (line 337), "returned" (line 358),     *)
(*     "raised" (an exception left run_specialists).                       *)
(***************************************************************************)
\* enabled_agents: None, or a collection of keys (possibly empty).
NoneAgents == [isNone |-> TRUE, keys |-> {}]

SomeAgents(keys) == [isNone |-> FALSE, keys |-> keys]

\* A plausible slip: only None stands for all agents.
EnabledSetNoneOnly(enabled) ==
    IF ~enabled.isNone THEN enabled.keys ELSE AgentKeys

\* Line 207: set(enabled_agents) if enabled_agents else set(ALL_AGENT_KEYS)
EnabledSet(enabled) ==
    IF ~enabled.isNone /\ enabled.keys # {} THEN enabled.keys ELSE AgentKeys

\* An entry of raw_outputs: the raw text of a task, or one of the fixed
\* strings the scheduler writes.
RawText(text) == [kind |-> "task", text |-> text]

RawFixed(kind) == [kind |-> kind, text |-> <<>>]

\* The neutral output of lines 256-263.
SerperMissingOutput ==
    AgentOutput(NeutralScore, "Serper API key missing; defaulting to neutral score.",
                <<"Set SERPER_API_KEY to enable news sentiment analysis.",
                  "Without news signals, rely on other agents for sentiment.">>)

\* search_news results: items found, the credential missing, an error note.
NewsResponse(items, note) == [isNone |-> FALSE, items |-> items, note |-> note]

NoNewsResponse == [isNone |-> TRUE, items |-> 0, note |-> ""]

NewsResponses ==
    {NewsResponse(2, ""), NewsResponse(0, "SERPER_API_KEY missing"),
     NewsResponse(0, "Serper error 503")}

\* crewai TaskOutput: the task it belongs to, its raw text ("" is <<>>) and
\* its json_dict (NotJson when unset).
TaskOutput(task, raw, json_dict) == [task |-> task, raw |-> raw, json_dict |-> json_dict]

\* _extract_raw_output(task_output); str(task_output) of an output with
\* neither raw nor json_dict is text that is no JSON.
_extract_raw_output(task_output) ==
    IF task_output.raw # <<>> THEN task_output.raw
    ELSE IF task_output.json_dict.t # "invalid" THEN <<DocTok(task_output.json_dict)>>
    ELSE <<Txt>>

\* What an agent answers for the task of one key: its score tells the tasks
\* apart.
KeyScore(key) ==
    CASE key = "investment" -> 81
      [] key = "location" -> 72
      [] key = "news" -> 63
      [] key = "vc_risk" -> 54
      [] key = "construction" -> 45
      [] OTHER -> 36

KeyDoc(key) == JsonObj(PyInt(KeyScore(key)), PyStr(key), PyList(<<"a", "b">>))

AnswerKinds == {"fenced", "garbage", "json_dict"}

TaskAnswer(key, kind) ==
    CASE kind = "fenced" ->
            TaskOutput(key, <<Fence, JsonWord, Ws, DocTok(KeyDoc(key)), Ws, Fence>>, NotJson)
      [] kind = "garbage" -> TaskOutput(key, <<Txt>>, NotJson)
      [] kind = "json_dict" -> TaskOutput(key, <<>>, KeyDoc(key))

Listings == {[address |-> ""], [address |-> "5020 Noble"]}

EnabledArgs ==
    {NoneAgents} \cup {SomeAgents(ks) : ks \in SUBSET (AgentKeys \cup {"la_city", "zoning"})}

FetchOutcomes == {"bundle", "LASocrataError", "ValueError", "Exception"}

\* What fetch_la_city_records did: whether it was called, how it ended, and
\* whether any request was sent to the dataset host.
LaFetch(called, outcome, requested) ==
    [called |-> called, outcome |-> outcome, requested |-> requested]

NoLaFetch == LaFetch(FALSE, "", FALSE)

\* The report of build_final_report, or none yet.
NoReport == [made |-> FALSE]

Init ==
    /\ call = NoCall
    /\ pc = "start"
    /\ listing \in Listings
    /\ enabled_agents \in EnabledArgs
    /\ la_city_records = "None"
    /\ outputs = <<>>
    /\ raw_outputs = <<>>
    /\ news_response = NoNewsResponse
    /\ serper_missing = FALSE
    /\ task_labels = <<>>
    /\ tasks_output = <<>>
    /\ socrata_token = FALSE
    /\ la_fetch = NoLaFetch
    /\ report = NoReport
    /\ FetchOff /\ ApiOff /\ SerperOff /\ FiltersOff /\ CrewOff

\* A plausible slip: only ValueError is caught around the dataset fetch.
FetchSwallowsValueErrorOnly(outcome) == outcome = "ValueError"

\* Lines 224-233: except (LASocrataError, ValueError) and except Exception
\* swallow every error of the dataset fetch.
FetchSwallows(outcome) == outcome \in {"LASocrataError", "ValueError", "Exception"}

\* crew.py lines 66-75, la_property_ingestor.py lines 20-54: how
\* fetch_la_city_records can end.  The agent is created on first use by
\* LASocrataTool(), which raises without a token; with a client, fetch_all
\* returns the bundle or an error leaves it.
LaFetchOutcomes(token) ==
    IF ~LASocrataTool(FALSE, token).ok
    THEN {LaFetch(TRUE, LASocrataTool(FALSE, token).exc, FALSE)}
    ELSE {LaFetch(TRUE, "bundle", TRUE), LaFetch(TRUE, "ValueError", FALSE),
          LaFetch(TRUE, "Exception", TRUE)}

\* Lines 207-242: the dataset fetch, its errors swallowed.
FetchLaCityRecords ==
    /\ pc = "start"
    /\ LET enabled_set == EnabledSet(enabled_agents)
           include_la_city ==
               listing.address # "" /\ (enabled_agents.isNone \/ "la_city" \in enabled_set)
       IN  IF include_la_city /\ listing.address # ""
           THEN \E token \in BOOLEAN :
                \E f \in LaFetchOutcomes(token) :
                   /\ socrata_token' = token
                   /\ la_fetch' = f
                   /\ IF f.outcome = "bundle"
                      THEN /\ la_city_records' = "bundle"
                           /\ raw_outputs' = Put(<<>>, "la_city_records",
                                                 RawFixed("la_city_records"))
                           /\ pc' = "news"
                      ELSE /\ la_city_records' = "None"
                           /\ raw_outputs' = <<>>
                           /\ pc' = IF FetchSwallows(f.outcome) THEN "news" ELSE "raised"
           ELSE /\ la_city_records' = "None"
                /\ raw_outputs' = <<>>
                /\ la_fetch' = NoLaFetch
                /\ pc' = "news"
                /\ UNCHANGED socrata_token
    /\ outputs' = <<>>
    /\ UNCHANGED <<otherVars, report, listing, enabled_agents, news_response,
                   serper_missing, task_labels, tasks_output>>

\* _format_news_context(response), lines 127-149: the text put into the news
\* task, as the sequence of its lines, each line the sequence of its pieces.
_format_news_context(response) ==
    IF response.items = 0
    THEN <<<<"No Serper news items available.">>>>
         \o (IF response.note # "" THEN <<<<"Note: ", response.note>>>> ELSE <<>>)
    ELSE <<<<"Recent Serper news results:">>>>
         \o [i \in 1..response.items |-> <<"item">>]
         \o (IF response.note # "" THEN <<<<"Note: ", response.note>>>> ELSE <<>>)

\* A plausible slip: any note counts as the missing credential.
IsSerperMissingOnAnyNote(response) == response.note # ""

\* Line 253: news_response.get("note") == "SERPER_API_KEY missing"
IsSerperMissing(response) == response.note = "SERPER_API_KEY missing"

\* Lines 244-264: the news query, and the short-circuit on a missing key.
QueryNews ==
    /\ pc = "news"
    /\ IF "news" \in EnabledSet(enabled_agents)
       THEN \E response \in NewsResponses :
               /\ news_response' = response
               /\ serper_missing' = IsSerperMissing(response)
               /\ IF IsSerperMissing(response)
                  THEN /\ outputs' = Put(outputs, "news", SerperMissingOutput)
                       /\ raw_outputs' = Put(raw_outputs, "news",
                                              RawFixed("Serper API key missing"))
                  ELSE UNCHANGED <<outputs, raw_outputs>>
       ELSE UNCHANGED <<news_response, serper_missing, outputs, raw_outputs>>
    /\ pc' = "build"
    /\ UNCHANGED <<otherVars, report, socrata_token, la_fetch, listing, enabled_agents,
                   la_city_records, task_labels, tasks_output>>

\* A plausible slip: the news task is built whenever 'news' is enabled.
TaskBuiltIgnoringMissing(key, enabled_set, missing) == key \in enabled_set

\* Lines 271-322: whether a task is built for the key.
TaskBuilt(key, enabled_set, missing) ==
    key \in enabled_set /\ (key = "news" => ~missing)

\* Lines 266-322: the labels of the tasks built, in the order of the code.
RECURSIVE BuildLabels(_, _, _)
BuildLabels(i, enabled_set, missing) ==
    IF i > Len(ALL_AGENT_KEYS) THEN <<>>
    ELSE (IF TaskBuilt(ALL_AGENT_KEYS[i], enabled_set, missing)
          THEN <<ALL_AGENT_KEYS[i]>> ELSE <<>>)
         \o BuildLabels(i + 1, enabled_set, missing)

BuildTasks ==
    /\ pc = "build"
    /\ task_labels' = BuildLabels(1, EnabledSet(enabled_agents), serper_missing)
    /\ pc' = "kickoff"
    /\ UNCHANGED <<otherVars, report, socrata_token, la_fetch, listing, enabled_agents,
                   la_city_records, outputs, raw_outputs,
                   news_response, serper_missing, tasks_output>>

\* A plausible slip: the outputs are paired with the labels from the last
\* output backwards.
RECURSIVE ZipOutputsReversed(_, _, _, _)
ZipOutputsReversed(labels, results, i, acc) ==
    IF i > Len(labels) \/ i > Len(results) THEN acc
    ELSE LET raw_str == _extract_raw_output(results[Len(results) + 1 - i])
         IN  ZipOutputsReversed(labels, results, i + 1,
                        [outputs |-> Put(acc.outputs, labels[i], _parse_agent_output(raw_str).v),
                         raw_outputs |-> Put(acc.raw_outputs, labels[i], RawText(raw_str))])

\* Lines 332-335: zip(task_labels, crew_output.tasks_output), from pair i on.
RECURSIVE ZipOutputs(_, _, _, _)
ZipOutputs(labels, results, i, acc) ==
    IF i > Len(labels) \/ i > Len(results) THEN acc
    ELSE LET raw_str == _extract_raw_output(results[i])
         IN  ZipOutputs(labels, results, i + 1,
                        [outputs |-> Put(acc.outputs, labels[i], _parse_agent_output(raw_str).v),
                         raw_outputs |-> Put(acc.raw_outputs, labels[i], RawText(raw_str))])

\* Lines 324-335: the batch.  The runtime answers the tasks in the order
\* submitted; kickoff may raise, and the list it returns may stop early.
Kickoff ==
    /\ pc = "kickoff"
    /\ IF task_labels = <<>>
       THEN /\ pc' = "fill"
            /\ UNCHANGED <<outputs, raw_outputs, tasks_output>>
       ELSE \/ /\ pc' = "raised"
               /\ UNCHANGED <<outputs, raw_outputs, tasks_output>>
            \/ \E n \in 0..Len(task_labels) :
               \E kinds \in [1..n -> AnswerKinds] :
                   LET results == [i \in 1..n |-> TaskAnswer(task_labels[i], kinds[i])]
                       zipped == ZipOutputs(task_labels, results, 1,
                                            [outputs |-> outputs, raw_outputs |-> raw_outputs])
                   IN  /\ tasks_output' = results
                       /\ outputs' = zipped.outputs
                       /\ raw_outputs' = zipped.raw_outputs
                       /\ pc' = "fill"
    /\ UNCHANGED <<otherVars, report, socrata_token, la_fetch, listing, enabled_agents,
                   la_city_records, news_response,
                   serper_missing, task_labels>>

\* A plausible slip: only the enabled keys are looked at.
SkippedAgentsAmongEnabled(outs, enabled_set) == enabled_set \ DOMAIN outs

\* Line 338: set(ALL_AGENT_KEYS) - set(outputs.keys())
SkippedAgents(outs, enabled_set) == AgentKeys \ DOMAIN outs

NotSelectedOutput ==
    AgentOutput(NeutralScore, "Agent not selected for this run; using neutral score.",
                <<"Agent skipped by user">>)

FailedOutput ==
    AgentOutput(NeutralScore, "Agent failed to produce output; defaulting to neutral score.",
                <<"Check agent configuration or API responses.">>)

\* A plausible slip: the test of line 340 is inverted.
DefaultForInverted(agent_key, enabled_set, missing) ==
    IF agent_key \in enabled_set
    THEN [fill |-> TRUE, output |-> NotSelectedOutput, raw |-> RawFixed("Agent skipped")]
    ELSE [fill |-> TRUE, output |-> FailedOutput, raw |-> RawFixed("Agent output missing")]

\* Lines 340-356: what the loop does for one skipped key; "continue" leaves
\* both maps alone.
DefaultFor(agent_key, enabled_set, missing) ==
    IF agent_key \notin enabled_set
    THEN [fill |-> TRUE, output |-> NotSelectedOutput, raw |-> RawFixed("Agent skipped")]
    ELSE IF agent_key = "news" /\ missing
    THEN [fill |-> FALSE, output |-> NotSelectedOutput, raw |-> RawFixed("")]
    ELSE [fill |-> TRUE, output |-> FailedOutput, raw |-> RawFixed("Agent output missing")]

\* Lines 337-366: the default fill and the return.
FillDefaults ==
    /\ pc = "fill"
    /\ LET enabled_set == EnabledSet(enabled_agents)
           skipped_agents == SkippedAgents(outputs, enabled_set)
           filled == {k \in skipped_agents : DefaultFor(k, enabled_set, serper_missing).fill}
       IN  /\ outputs' = [k \in DOMAIN outputs \cup filled |->
                            IF k \in filled
                            THEN DefaultFor(k, enabled_set, serper_missing).output
                            ELSE outputs[k]]
           /\ raw_outputs' = [k \in DOMAIN raw_outputs \cup filled |->
                                IF k \in filled
                                THEN DefaultFor(k, enabled_set, serper_missing).raw
                                ELSE raw_outputs[k]]
    /\ pc' = "returned"
    /\ UNCHANGED <<otherVars, report, socrata_token, la_fetch, listing, enabled_agents,
                   la_city_records, news_response,
                   serper_missing, task_labels, tasks_output>>

(***************************************************************************)
(* crew.py: build_final_report, called by analyze_listing (lines 368-374)  *)
(* with the result of run_specialists.                                     *)
(*                                                                         *)
(* pc: "reported" (a FinalReport was returned, line 475),                  *)
(*     "report_raised" (an exception left build_final_report).             *)
(***************************************************************************)
\* models.py AgentScores: six integers, each validated ge=1, le=100.
AgentScores(investment, location, news_signal, risk_return, construction, overall) ==
    [investment |-> investment, location |-> location, news_signal |-> news_signal,
     risk_return |-> risk_return, construction |-> construction, overall |-> overall]

AgentScoresValid(scores) ==
    \A f \in DOMAIN scores : scores[f] \in MinScore..MaxScore

\* models.py FinalReport, the fields build_final_report computes; beside
\* them the parsed synthesis output the report was built from (the local
\* aggregator_output of line 455, which is no field of the report).
FinalReport(scores, memo_markdown, summary, outs, aggregator_output) ==
    [made |-> TRUE, scores |-> scores, memo_markdown |-> memo_markdown,
     summary |-> summary, outputs |-> outs, aggregator_output |-> aggregator_output]

\* What the synthesis agent answers.
AggregatorDoc == JsonObj(PyInt(77), PyStr("memo summary"), PyList(<<"line 1", "line 2">>))

EmptyAggregatorDoc == JsonObj(PyInt(77), PyStr(""), PyList(<<>>))

NoNotesAggregatorDoc == JsonObj(PyInt(12), PyStr("memo summary"), PyList(<<>>))

NoRationaleAggregatorDoc == JsonObj(PyInt(99), PyStr(""), PyList(<<"line 1">>))

\* How aggregator_crew.kickoff can end (lines 450-454): it raises, or it
\* returns with the synthesis output last in tasks_output, or with an empty
\* tasks_output, in which case str(aggregator_result) is parsed.
AggregatorOutcomes ==
    {"raises", "fenced", "empty_fields", "empty_notes", "empty_rationale", "garbage",
     "no_tasks_output"}

AggregatorRaw(outcome) ==
    CASE outcome = "fenced" ->
            _extract_raw_output(TaskOutput("aggregator",
                <<Fence, JsonWord, Ws, DocTok(AggregatorDoc), Ws, Fence>>, NotJson))
      [] outcome = "empty_fields" ->
            _extract_raw_output(TaskOutput("aggregator", <<>>, EmptyAggregatorDoc))
      [] outcome = "empty_notes" ->
            _extract_raw_output(TaskOutput("aggregator", <<>>, NoNotesAggregatorDoc))
      [] outcome = "empty_rationale" ->
            _extract_raw_output(TaskOutput("aggregator",
                <<Fence, Ws, DocTok(NoRationaleAggregatorDoc), Fence>>, NotJson))
      [] outcome = "garbage" ->
            _extract_raw_output(TaskOutput("aggregator", <<Txt>>, NotJson))
      [] OTHER -> <<Txt>>

\* Lines 398-405: scores_dict and the weighted overall score, under
\* self.weights = settings.get_weights() (line 64).
ScoresDict(outs) == [k \in AgentKeys |-> outs[k].score_1_to_100]

OverallScore(outs) == weighted_overall(ScoresDict(outs), get_weights).v

\* "\n".join(notes): the notes in their order with a newline between two
\* neighbours; a text is the sequence of its pieces.
RECURSIVE JoinLines(_)
JoinLines(notes) ==
    IF notes = <<>> THEN <<>>
    ELSE IF Len(notes) = 1 THEN notes
    ELSE <<Head(notes), "\n">> \o JoinLines(Tail(notes))

\* A plausible slip: the score of the synthesis output becomes the overall.
ReportFromAggregatorScore(outs, aggregator_output) ==
    [made |-> TRUE,
     scores |-> [investment |-> outs["investment"].score_1_to_100,
                 location |-> outs["location"].score_1_to_100,
                 news_signal |-> outs["news"].score_1_to_100,
                 risk_return |-> outs["vc_risk"].score_1_to_100,
                 construction |-> outs["construction"].score_1_to_100,
                 overall |-> aggregator_output.score_1_to_100],
     memo_markdown |-> IF aggregator_output.notes # <<>>
                       THEN JoinLines(aggregator_output.notes)
                       ELSE <<"No memo generated">>,
     summary |-> IF aggregator_output.rationale # "" THEN aggregator_output.rationale
                 ELSE "Summary unavailable",
     outputs |-> outs,
     aggregator_output |-> aggregator_output]

\* A plausible slip: an empty memo is left empty.
ReportFromNoPlaceholder(outs, aggregator_output) ==
    [made |-> TRUE,
     scores |-> [investment |-> outs["investment"].score_1_to_100,
                 location |-> outs["location"].score_1_to_100,
                 news_signal |-> outs["news"].score_1_to_100,
                 risk_return |-> outs["vc_risk"].score_1_to_100,
                 construction |-> outs["construction"].score_1_to_100,
                 overall |-> weighted_overall([k \in AgentKeys |-> outs[k].score_1_to_100],
                                              get_weights).v],
     memo_markdown |-> JoinLines(aggregator_output.notes),
     summary |-> IF aggregator_output.rationale # "" THEN aggregator_output.rationale
                 ELSE "Summary unavailable",
     outputs |-> outs,
     aggregator_output |-> aggregator_output]

\* Lines 457-488: the report built from the specialist outputs and the parsed
\* synthesis output.
ReportFrom(outs, aggregator_output) ==
    FinalReport(AgentScores(outs["investment"].score_1_to_100,
                            outs["location"].score_1_to_100,
                            outs["news"].score_1_to_100,
                            outs["vc_risk"].score_1_to_100,
                            outs["construction"].score_1_to_100,
                            OverallScore(outs)),
                IF aggregator_output.notes # <<>> THEN JoinLines(aggregator_output.notes)
                ELSE <<"No memo generated">>,
                IF aggregator_output.rationale # "" THEN aggregator_output.rationale
                ELSE "Summary unavailable",
                outs, aggregator_output)

\* A plausible slip: the report is built from the batch result before the
\* default fill.
BuildFinalReportBeforeFill ==
    /\ pc = "fill"
    /\ IF ~(AgentKeys \subseteq DOMAIN outputs)
       THEN pc' = "report_raised" /\ report' = NoReport
       ELSE \E outcome \in AggregatorOutcomes \ {"raises"} :
               /\ pc' = "reported"
               /\ report' = ReportFrom(outputs,
                                       _parse_agent_output(AggregatorRaw(outcome)).v)
    /\ UNCHANGED <<otherVars, socrata_token, la_fetch, listing, enabled_agents,
                   la_city_records, outputs, raw_outputs, news_response, serper_missing,
                   task_labels, tasks_output>>

\* Lines 376-488, as the second step of analyze_listing (line 374).  A key
\* missing from outputs is a KeyError (lines 392-396); an error of the
\* synthesis kickoff (line 450) is not caught.
BuildFinalReport ==
    /\ pc = "returned"
    /\ IF ~(AgentKeys \subseteq DOMAIN outputs)
       THEN pc' = "report_raised" /\ report' = NoReport
       ELSE \E outcome \in AggregatorOutcomes :
               IF outcome = "raises"
               THEN pc' = "report_raised" /\ report' = NoReport
               ELSE LET aggregator_output == _parse_agent_output(AggregatorRaw(outcome)).v
                        built == ReportFrom(outputs, aggregator_output)
                    IN  IF AgentScoresValid(built.scores)
                        THEN pc' = "reported" /\ report' = built
                        ELSE pc' = "report_raised" /\ report' = NoReport
    /\ UNCHANGED <<otherVars, socrata_token, la_fetch, listing, enabled_agents,
                   la_city_records, outputs, raw_outputs, news_response, serper_missing,
                   task_labels, tasks_output>>

Next ==
    \/ FetchLaCityRecords
    \/ QueryNews
    \/ BuildTasks
    \/ Kickoff
    \/ FillDefaults
    \/ BuildFinalReport

Spec == Init /\ [][Next]_vars

Returns == pc = "returned"

\* C1: whenever run_specialists returns, outputs has exactly the five keys
\* investment, location, news, vc_risk, construction and every value has an
\* integer score in [1,100], for every listing and enabled-agents argument.
C1_OutputsClosed ==
    Returns =>
        /\ DOMAIN outputs = {"investment", "location", "news", "vc_risk", "construction"}
        /\ \A k \in DOMAIN outputs : outputs[k].score_1_to_100 \in 1..100

\* A run with 'la_city' and an unknown key beside two canonical keys has
\* returned, one of its tasks having answered garbage.
C1_Witness ==
    /\ Returns
    /\ enabled_agents = SomeAgents({"investment", "news", "la_city", "zoning"})
    /\ Len(tasks_output) = 2
    /\ tasks_output[1].raw = <<Txt>>

\* The position of key k among the outputs the batch returned, 0 if none.
BatchIndex(k) ==
    LET hits == {i \in 1..Len(tasks_output) : i <= Len(task_labels) /\ task_labels[i] = k}
    IN  IF hits = {} THEN 0 ELSE CHOOSE i \in hits : TRUE

\* The key got its output before the batch (the missing-credential case).
SetBeforeBatch(k) == k = "news" /\ serper_missing

IsDefault(out, rationale) ==
    /\ out.score_1_to_100 = 50
    /\ out.rationale = rationale
    /\ Len(out.notes) = 1

\* C2: every canonical key with no output after the batch gets a default
\* with score 50 and exactly one note, 'Agent not selected for this run' when
\* the key is not enabled and 'Agent failed to produce output' when it was
\* enabled but the batch returned no output for it.  For the enabled set
\* {investment, construction} exactly two tasks are scheduled, both keys
\* carry the parsed outputs of their own tasks, and location, news and
\* vc_risk carry the not-selected default.
C2_DefaultFill ==
    Returns =>
        /\ \A k \in AgentKeys :
              (BatchIndex(k) = 0 /\ ~SetBeforeBatch(k)) =>
                  IF k \notin EnabledSet(enabled_agents)
                  THEN IsDefault(outputs[k],
                                 "Agent not selected for this run; using neutral score.")
                  ELSE IsDefault(outputs[k],
                                 "Agent failed to produce output; defaulting to neutral score.")
        /\ enabled_agents = SomeAgents({"investment", "construction"}) =>
              /\ task_labels = <<"investment", "construction">>
              /\ Len(tasks_output) = 2 =>
                    \A i \in 1..2 :
                        /\ tasks_output[i].task = task_labels[i]
                        /\ outputs[task_labels[i]]
                              = _parse_agent_output(_extract_raw_output(tasks_output[i])).v
              /\ \A k \in {"location", "news", "vc_risk"} :
                    IsDefault(outputs[k],
                              "Agent not selected for this run; using neutral score.")

\* The enabled set {investment, construction} with both tasks answered, and
\* investment carrying its own parsed score.
C2_Witness ==
    /\ Returns
    /\ enabled_agents = SomeAgents({"investment", "construction"})
    /\ Len(tasks_output) = 2
    /\ outputs["investment"].score_1_to_100 = 81
    /\ outputs["construction"].score_1_to_100 = 45

\* An enabled key for which the batch returned no output carries the
\* failure default.
C2_WitnessFailed ==
    /\ Returns
    /\ enabled_agents = SomeAgents({"investment", "construction"})
    /\ Len(tasks_output) = 1
    /\ outputs["construction"] = FailedOutput

(***************************************************************************)
(* main.py: analyze_properties, the /analyze operation (lines 465-571).    *)
(*                                                                         *)
(* api.pc: "start", "analyze" (in the loop of line 550, at listing i),     *)
(*         "responded".                                                    *)
(* The listing source is LoopNetClient.search_properties, which raises     *)
(* LoopNetAPIError only (loopnet_client.py lines 97-137); load_city_name,  *)
(* called in the same try block, may raise any other exception.            *)
(***************************************************************************)
\* At most MaxListings listings come back from the listing source.
MaxListings == 3

ListingIds == <<"LN-1", "LN-2", "LN-3", "LN-4">>

\* How the try block of lines 524-541 ends: with listings, with a
\* LoopNetAPIError of the listing source, or with another exception raised
\* before the listing source was called; no_data tells whether the message
\* contains 'No data found'.
SourceListings(n) == [kind |-> "listings", n |-> n, no_data |-> FALSE]

SourceError(kind, no_data) == [kind |-> kind, n |-> 0, no_data |-> no_data]

SourceOutcomes ==
    {SourceListings(n) : n \in 0..MaxListings}
    \cup {SourceError(k, d) : k \in {"LoopNetAPIError", "Exception"}, d \in BOOLEAN}

\* The HTTP response of the operation: a status and, on success, the ids of
\* the reports in the list returned.
ApiResponse(status, reports) == [status |-> status, reports |-> reports]

NoResponse == ApiResponse(0, <<>>)

\* A plausible slip: every LoopNetAPIError becomes a 502.
SourceErrorResponseUnchecked(source) ==
    IF source.kind = "LoopNetAPIError" THEN ApiResponse(502, <<>>)
    ELSE ApiResponse(500, <<>>)

\* Lines 534-541: the response to an exception of the try block.
SourceErrorResponse(source) ==
    IF source.kind = "LoopNetAPIError"
    THEN IF source.no_data THEN ApiResponse(200, <<>>) ELSE ApiResponse(502, <<>>)
    ELSE ApiResponse(500, <<>>)

NewApi(keys, crew_ok, source) ==
    [pc |-> "start", keys |-> keys, crew_ok |-> crew_ok, source |-> source,
     searched |-> FALSE, listings |-> <<>>, i |-> 1, invoked |-> <<>>, fates |-> <<>>,
     reports |-> <<>>, response |-> NoResponse]

ApiDone(response) == [api EXCEPT !.pc = "responded", !.response = response]

\* Lines 501-547: the key checks, the listing search, the empty result, and
\* the construction of the crew (an error there is not caught).
ApiFetchListings ==
    /\ api.pc = "start"
    /\ api' =
         IF api.keys # "ok" THEN ApiDone(ApiResponse(500, <<>>))
         ELSE IF api.source.kind = "Exception" THEN ApiDone(SourceErrorResponse(api.source))
         ELSE IF api.source.kind = "LoopNetAPIError"
         THEN [ApiDone(SourceErrorResponse(api.source)) EXCEPT !.searched = TRUE]
         ELSE IF api.source.n = 0
         THEN [ApiDone(ApiResponse(200, <<>>)) EXCEPT !.searched = TRUE]
         ELSE IF ~api.crew_ok
         THEN [ApiDone(ApiResponse(500, <<>>)) EXCEPT
                   !.searched = TRUE, !.listings = SubSeq(ListingIds, 1, api.source.n)]
         ELSE [api EXCEPT !.pc = "analyze", !.searched = TRUE,
                          !.listings = SubSeq(ListingIds, 1, api.source.n)]
    /\ UNCHANGED <<call, fetch, serper, filters, crew, runVars>>

\* Lines 550-556: analyze_listing for one listing; its report is appended,
\* its exception is printed and the loop goes on.
ApiAnalyzeListing ==
    /\ api.pc = "analyze"
    /\ api.i <= Len(api.listings)
    /\ \E fate \in {"report", "raises"} :
          api' = [api EXCEPT !.i = @ + 1,
                             !.invoked = Append(@, api.listings[api.i]),
                             !.fates = Append(@, fate),
                             !.reports = IF fate = "report"
                                         THEN Append(@, api.listings[api.i]) ELSE @]
    /\ UNCHANGED <<call, fetch, serper, filters, crew, runVars>>

\* Lines 558-571: the reports are saved (a failure to save is printed only)
\* and returned.
ApiRespond ==
    /\ api.pc = "analyze"
    /\ api.i > Len(api.listings)
    /\ api' = ApiDone(ApiResponse(200, api.reports))
    /\ UNCHANGED <<call, fetch, serper, filters, crew, runVars>>

InitApi ==
    /\ call = NoCall
    /\ RunOff /\ FetchOff /\ SerperOff /\ FiltersOff /\ CrewOff
    /\ \E keys \in {"ok", "RAPIDAPI_KEY missing", "OPENAI_API_KEY missing"},
          crew_ok \in BOOLEAN,
          source \in SourceOutcomes :
          api = NewApi(keys, crew_ok, source)

NextApi ==
    \/ ApiFetchListings
    \/ ApiAnalyzeListing
    \/ ApiRespond

SpecApi == InitApi /\ [][NextApi]_vars

\* The listings whose analysis gave a report, in listing order.
RECURSIVE Reported(_, _, _)
Reported(listings, fates, i) ==
    IF i > Len(listings) THEN <<>>
    ELSE (IF fates[i] = "report" THEN <<listings[i]>> ELSE <<>>)
         \o Reported(listings, fates, i + 1)

\* C16: when the listing source raises an error whose message contains 'No
\* data found', or returns no listing, the response is 200 with an empty
\* list and analyze_listing was never invoked; any other error of the
\* listing source gives an error response; when listings came back and the
\* operation answers 200, analyze_listing was invoked for every listing in
\* listing order, and the list returned holds, in listing order, exactly the
\* listings whose analysis raised nothing.
C16_AnalyzeOperation ==
    (api.pc = "responded" /\ api.searched) =>
        /\ ((api.source.kind = "LoopNetAPIError" /\ api.source.no_data)
              \/ (api.source.kind = "listings" /\ api.source.n = 0)) =>
                /\ api.response = ApiResponse(200, <<>>)
                /\ api.invoked = <<>>
        /\ (api.source.kind = "LoopNetAPIError" /\ ~api.source.no_data) =>
                /\ api.response.status >= 400
                /\ api.invoked = <<>>
        /\ (api.source.kind = "listings" /\ api.response.status = 200) =>
                /\ api.invoked = api.listings
                /\ api.response.reports = Reported(api.listings, api.fates, 1)

\* Three listings, the second of which failed to analyze.
C16_Witness ==
    /\ api.pc = "responded"
    /\ api.listings = <<"LN-1", "LN-2", "LN-3">>
    /\ api.fates = <<"report", "raises", "report">>
    /\ api.response = ApiResponse(200, <<"LN-1", "LN-3">>)

(***************************************************************************)
(* filters.py: the filters file, the module lock _LOCK = Lock() (line 14)  *)
(* and threads that each make one call of load_filters, load_city_name or  *)
(* save_filters.                                                           *)
(*                                                                         *)
(* The file is "absent", "invalid" (content that is no valid SearchParams  *)
(* JSON), "stored" (filters saved earlier), "saved" (written by            *)
(* save_filters) or "default" (_DEFAULT_FILTERS written back).             *)
(* threading.Lock is not reentrant: acquire waits until the lock is free,  *)
(* whoever holds it.  lock is 0 when free, else the thread holding it.     *)
(*                                                                         *)
(* pc of a thread: "call", "holding" (inside `with _LOCK` of the function  *)
(* called), "write_wait" (at `with _LOCK` of _write_filters, line 31),     *)
(* "writing" (inside it), "returned".                                      *)
(***************************************************************************)
Threads == {1, 2}

FilterOps == {"load_filters", "load_city_name", "save_filters"}

FilterThread(op) == [op |-> op, pc |-> "call", ret |-> "", seen |-> ""]

\* The content the file holds valid filters with.
ValidFiles == {"stored", "saved", "default"}

\* Lock.acquire(): the lock can be taken when it is free.
LockFreeFor(lock, t) == lock = 0

\* `with _LOCK:` of load_filters (line 41) and load_city_name (line 57).
FiltersAcquire(t) ==
    /\ filters.threads[t].pc = "call"
    /\ filters.threads[t].op \in {"load_filters", "load_city_name"}
    /\ LockFreeFor(filters.lock, t)
    /\ filters' = [filters EXCEPT !.lock = t, !.threads[t].pc = "holding"]
    /\ UNCHANGED <<call, fetch, api, serper, crew, runVars>>

\* Lines 42-51 and 58-64, under the lock: a valid file is read and returned;
\* load_filters calls _write_filters(_DEFAULT_FILTERS) for an absent or
\* invalid file; load_city_name returns None for them.
FiltersBody(t) ==
    /\ filters.threads[t].pc = "holding"
    /\ LET th == filters.threads[t]
           valid == filters.file \in ValidFiles
       IN  filters' =
               IF th.op = "load_filters" /\ ~valid
               THEN [filters EXCEPT !.threads[t].pc = "write_wait",
                                    !.threads[t].seen = filters.file]
               ELSE [filters EXCEPT !.lock = 0,
                                    !.threads[t].pc = "returned",
                                    !.threads[t].seen = filters.file,
                                    !.threads[t].ret = IF valid THEN filters.file ELSE "None"]
    /\ UNCHANGED <<call, fetch, api, serper, crew, runVars>>

\* save_filters (lines 67-70) calls _write_filters at once.
FiltersSave(t) ==
    /\ filters.threads[t].pc = "call"
    /\ filters.threads[t].op = "save_filters"
    /\ filters' = [filters EXCEPT !.threads[t].pc = "write_wait"]
    /\ UNCHANGED <<call, fetch, api, serper, crew, runVars>>

\* `with _LOCK:` of _write_filters (line 31).
FiltersWriteAcquire(t) ==
    /\ filters.threads[t].pc = "write_wait"
    /\ LockFreeFor(filters.lock, t)
    /\ filters' = [filters EXCEPT !.lock = t, !.threads[t].pc = "writing"]
    /\ UNCHANGED <<call, fetch, api, serper, crew, runVars>>

\* Lines 32-35: the file is written and the lock released; save_filters
\* returns its argument, load_filters a copy of the defaults (lines 44, 50).
FiltersWrite(t) ==
    /\ filters.threads[t].pc = "writing"
    /\ LET th == filters.threads[t]
           content == IF th.op = "save_filters" THEN "saved" ELSE "default"
       IN  filters' = [filters EXCEPT !.file = content,
                                      !.lock = 0,
                                      !.threads[t].pc = "returned",
                                      !.threads[t].ret = content]
    /\ UNCHANGED <<call, fetch, api, serper, crew, runVars>>

InitFilters ==
    /\ call = NoCall
    /\ RunOff /\ FetchOff /\ ApiOff /\ SerperOff /\ CrewOff
    /\ \E file \in {"absent", "invalid", "stored"} :
       \E ops \in [Threads -> FilterOps] :
          filters = [pc |-> "on", file |-> file, lock |-> 0,
                     threads |-> [t \in Threads |-> FilterThread(ops[t])]]

FiltersStep(t) ==
    \/ FiltersAcquire(t)
    \/ FiltersBody(t)
    \/ FiltersSave(t)
    \/ FiltersWriteAcquire(t)
    \/ FiltersWrite(t)

NextFilters == \E t \in Threads : FiltersStep(t)

SpecFilters == InitFilters /\ [][NextFilters]_vars

\* Every thread that can take a step eventually takes one.
SpecFiltersFair == SpecFilters /\ \A t \in Threads : WF_vars(FiltersStep(t))

\* What a finished load_filters call gave, and the lock at rest.
C30_LoadFiltersResult ==
    filters.pc = "on" =>
        /\ \A t \in Threads :
              LET th == filters.threads[t]
              IN  (th.op = "load_filters" /\ th.pc = "returned") =>
                      IF th.seen \in {"absent", "invalid"}
                      THEN th.ret = "default" /\ filters.file \in ValidFiles
                      ELSE th.ret = th.seen
        /\ (\A t \in Threads : filters.threads[t].pc \in {"call", "returned"})
              => filters.lock = 0

\* C30: every load_filters call returns, alone or beside other filter
\* operations: for an absent or invalid file it rewrites the file with the
\* defaults and returns them, otherwise it returns the stored filters; no
\* call of a filter operation waits for the lock forever, and the lock is
\* free after every call.
C30_LoadFiltersReturns ==
    /\ []C30_LoadFiltersResult
    /\ \A t \in Threads :
          (filters.pc = "on") ~> (filters.threads[t].pc = "returned")

(***************************************************************************)
(* crew.py: several analyze_listing calls on one PropertyAnalysisCrew.     *)
(*                                                                         *)
(* The calls are coroutines of one event loop: a call runs alone from one  *)
(* await to the next (the news query of line 251, the batch of line 330,   *)
(* the synthesis of line 450), and between two awaits of one call the      *)
(* other calls may run.  The instance holds the weights (line 64) and the  *)
(* dataset client, created on first use (lines 66-71); the descriptor      *)
(* table DATASETS is module state.  What the services answer to a call is  *)
(* fixed with the call: its news answer and the kind of its task answers;  *)
(* a dataset client, when there is one, returns a bundle.                  *)
(*                                                                         *)
(* pc of a call: "idle", "news", "batch", "synthesis", "done".             *)
(***************************************************************************)
Runs == {1, 2}

CrewListing(listing_id, address) == [listing_id |-> listing_id, address |-> address]

NoRecords == [found |-> FALSE, address |-> ""]

CrewRun(a_listing, enabled, news_answer, answer_kind) ==
    [pc |-> "idle", listing |-> a_listing, enabled_agents |-> enabled,
     news_answer |-> news_answer, answer_kind |-> answer_kind,
     la_city_records |-> NoRecords, outputs |-> <<>>, raw_outputs |-> <<>>,
     serper_missing |-> FALSE, task_labels |-> <<>>, listing_id |-> "", report |-> NoReport]

\* A plausible slip: the outputs live on the instance and are shared by the
\* calls.
SharedOutputs(runs, r) ==
    LET others == {q \in Runs \ {r} : runs[q].outputs # <<>>}
    IN  IF others = {} THEN <<>> ELSE runs[CHOOSE q \in others : TRUE].outputs

\* Line 235: outputs is a new dict of the call.
FreshOutputs(runs, r) == <<>>

\* Line 218: include_la_city
IncludeLaCity(run) ==
    /\ run.listing.address # ""
    /\ (run.enabled_agents.isNone \/ "la_city" \in EnabledSet(run.enabled_agents))

\* Lines 207-242: the dataset fetch of a call, with or without a client.
RunFetched(run, has_client, start_outputs) ==
    LET found == IncludeLaCity(run) /\ has_client
    IN  [run EXCEPT
            !.la_city_records = IF found THEN [found |-> TRUE, address |-> run.listing.address]
                                ELSE NoRecords,
            !.outputs = start_outputs,
            !.raw_outputs = IF found
                            THEN Put(<<>>, "la_city_records", RawFixed("la_city_records"))
                            ELSE <<>>]

\* Lines 252-264: the news answer has come.
RunNewsDone(run) ==
    IF IsSerperMissing(run.news_answer)
    THEN [run EXCEPT !.serper_missing = TRUE,
                     !.outputs = Put(@, "news", SerperMissingOutput),
                     !.raw_outputs = Put(@, "news", RawFixed("Serper API key missing"))]
    ELSE run

\* Lines 266-322
RunTasksBuilt(run) ==
    [run EXCEPT !.task_labels = BuildLabels(1, EnabledSet(run.enabled_agents),
                                            run.serper_missing)]

\* Lines 332-335: the batch has answered every task.
RunBatchDone(run) ==
    LET results == [i \in 1..Len(run.task_labels) |->
                       TaskAnswer(run.task_labels[i], run.answer_kind)]
        zipped == ZipOutputs(run.task_labels, results, 1,
                             [outputs |-> run.outputs, raw_outputs |-> run.raw_outputs])
    IN  [run EXCEPT !.outputs = zipped.outputs, !.raw_outputs = zipped.raw_outputs]

\* Lines 337-356
RunFilled(run) ==
    LET enabled_set == EnabledSet(run.enabled_agents)
        filled == {k \in SkippedAgents(run.outputs, enabled_set) :
                      DefaultFor(k, enabled_set, run.serper_missing).fill}
    IN  [run EXCEPT
            !.outputs = [k \in DOMAIN run.outputs \cup filled |->
                            IF k \in filled
                            THEN DefaultFor(k, enabled_set, run.serper_missing).output
                            ELSE run.outputs[k]],
            !.raw_outputs = [k \in DOMAIN run.raw_outputs \cup filled |->
                                IF k \in filled
                                THEN DefaultFor(k, enabled_set, run.serper_missing).raw
                                ELSE run.raw_outputs[k]]]

\* Lines 455-488: the synthesis has answered; the report of the call, under
\* the weights of the instance.
RunReported(run, weights) ==
    LET aggregator_output == _parse_agent_output(AggregatorRaw("fenced")).v
    IN  [run EXCEPT
            !.listing_id = run.listing.listing_id,
            !.report = [ReportFrom(run.outputs, aggregator_output) EXCEPT
                           !.scores.overall =
                               weighted_overall(ScoresDict(run.outputs), weights).v]]

\* From the end of the news step to the next await.
AfterNews(run) ==
    LET built == RunTasksBuilt(run)
    IN  IF built.task_labels # <<>> THEN [built EXCEPT !.pc = "batch"]
        ELSE [RunFilled(built) EXCEPT !.pc = "synthesis"]

\* analyze_listing is called: lines 207-251, up to the first await.
CrewAnalyze(r) ==
    /\ crew.runs[r].pc = "idle"
    /\ LET run == crew.runs[r]
           has_client == crew.la_agent \/ (IncludeLaCity(run) /\ crew.token)
           fetched == RunFetched(run, has_client, FreshOutputs(crew.runs, r))
       IN  crew' = [crew EXCEPT
                       !.la_agent = has_client,
                       !.runs[r] = IF "news" \in EnabledSet(run.enabled_agents)
                                   THEN [fetched EXCEPT !.pc = "news"]
                                   ELSE AfterNews(fetched)]
    /\ UNCHANGED <<call, fetch, api, serper, filters, runVars>>

CrewNewsAnswered(r) ==
    /\ crew.runs[r].pc = "news"
    /\ crew' = [crew EXCEPT !.runs[r] = AfterNews(RunNewsDone(crew.runs[r]))]
    /\ UNCHANGED <<call, fetch, api, serper, filters, runVars>>

CrewBatchAnswered(r) ==
    /\ crew.runs[r].pc = "batch"
    /\ crew' = [crew EXCEPT
                    !.runs[r] = [RunFilled(RunBatchDone(crew.runs[r])) EXCEPT
                                    !.pc = "synthesis"]]
    /\ UNCHANGED <<call, fetch, api, serper, filters, runVars>>

CrewSynthesisAnswered(r) ==
    /\ crew.runs[r].pc = "synthesis"
    /\ crew' = [crew EXCEPT
                    !.runs[r] = [RunReported(crew.runs[r], crew.weights) EXCEPT
                                    !.pc = "done"]]
    /\ UNCHANGED <<call, fetch, api, serper, filters, runVars>>

CrewEnabledArgs ==
    {NoneAgents, SomeAgents({"investment", "news"}), SomeAgents({"la_city"})}

CrewNewsAnswers == {NewsResponse(2, ""), NewsResponse(0, "SERPER_API_KEY missing")}

CrewRuns(r) ==
    {CrewRun(CrewListing(ListingIds[r], address), enabled, news_answer, answer_kind) :
        address \in {"", "5020 Noble"}, enabled \in CrewEnabledArgs,
        news_answer \in CrewNewsAnswers, answer_kind \in {"fenced", "garbage"}}

InitCrew ==
    /\ call = NoCall
    /\ RunOff /\ FetchOff /\ ApiOff /\ SerperOff /\ FiltersOff
    /\ \E token \in BOOLEAN :
       \E first \in CrewRuns(1) :
       \E second \in CrewRuns(2) :
          crew = [pc |-> "on", token |-> token, la_agent |-> FALSE,
                  weights |-> get_weights, datasets |-> DATASETS,
                  runs |-> [r \in Runs |-> IF r = 1 THEN first ELSE second]]

NextCrew ==
    \E r \in Runs :
        \/ CrewAnalyze(r)
        \/ CrewNewsAnswered(r)
        \/ CrewBatchAnswered(r)
        \/ CrewSynthesisAnswered(r)

SpecCrew == InitCrew /\ [][NextCrew]_vars

\* The call as it ends when no other call is made on the instance.
Alone(run, token) ==
    LET idle == CrewRun(run.listing, run.enabled_agents, run.news_answer, run.answer_kind)
        fetched == RunFetched(idle, IncludeLaCity(idle) /\ token, <<>>)
        news == IF "news" \in EnabledSet(idle.enabled_agents)
                THEN RunNewsDone(fetched) ELSE fetched
        built == RunTasksBuilt(news)
        batch == IF built.task_labels # <<>> THEN RunBatchDone(built) ELSE built
    IN  [RunReported(RunFilled(batch), get_weights) EXCEPT !.pc = "done"]

\* C25: calls made on one PropertyAnalysisCrew, one after another or
\* interleaved, do not interfere: the outputs, raw outputs and report of a
\* finished call are those of the same call made alone, the report is for
\* the listing of the call, and no call changes the weights, the dataset
\* descriptor table or its listing.
C25_RunsIndependent ==
    crew.pc = "on" =>
        /\ crew.weights = get_weights
        /\ crew.datasets = DATASETS
        /\ \A r \in Runs :
              LET run == crew.runs[r]
              IN  /\ run.listing.listing_id = ListingIds[r]
                  /\ run.pc = "done" =>
                        /\ run.outputs = Alone(run, crew.token).outputs
                        /\ run.raw_outputs = Alone(run, crew.token).raw_outputs
                        /\ run.report = Alone(run, crew.token).report
                        /\ run.listing_id = ListingIds[r]
                        /\ DOMAIN run.outputs = AgentKeys

\* Both calls are finished, the second one started while the first one was
\* waiting, and their results differ.
C25_Witness ==
    /\ crew.pc = "on"
    /\ crew.runs[1].pc = "done"
    /\ crew.runs[2].pc = "done"
    /\ crew.runs[1].enabled_agents = NoneAgents
    /\ crew.runs[2].enabled_agents = SomeAgents({"investment", "news"})
    /\ crew.runs[1].outputs # crew.runs[2].outputs
    /\ crew.runs[1].report.scores.overall # crew.runs[2].report.scores.overall

\* run_specialists has returned (analyze_listing may have gone on since).
HasReturned == pc \in {"returned", "reported", "report_raised"}

\* analyze_listing has ended: with a report, or with an exception out of
\* run_specialists or out of build_final_report.
AnalyzeEnded == pc \in {"reported", "raised", "report_raised"}

\* The dataset fetch was attempted and gave no bundle.
FetchFailed == la_fetch.called /\ la_fetch.outcome # "bundle"

\* C14: LASocrataTool() with no app_token argument and no SOCRATA_APP_TOKEN
\* raises LASocrataError; a run whose dataset fetch needs that client sends
\* no request; the step of run_specialists that fetches never ends the run,
\* whatever error the fetch raised; from then on la_city_records is None and
\* raw_outputs has no 'la_city_records' entry, and the result returned is
\* complete (all five keys).
C14_FetchErrorState ==
    /\ LASocrataTool(FALSE, FALSE) = [ok |-> FALSE, v |-> "", exc |-> "LASocrataError"]
    /\ (la_fetch.called /\ ~socrata_token) =>
          /\ la_fetch.outcome = "LASocrataError"
          /\ ~la_fetch.requested
    /\ FetchFailed =>
          /\ la_city_records = "None"
          /\ "la_city_records" \notin DOMAIN raw_outputs
          /\ HasReturned => DOMAIN outputs = AgentKeys

AllNeutral == HasReturned /\ \A k \in AgentKeys : outputs[k].score_1_to_100 = NeutralScore

\* Weight maps over the five keys whose sum is positive.
ReportWeights ==
    {w \in [AgentKeys -> {-1, 0, 1, 2}] : SumValues(w, AgentKeys) > 0}

C17_NewsShortCircuit ==
    LET enabled_set == EnabledSet(enabled_agents)
        scheduled == {task_labels[i] : i \in 1..Len(task_labels)}
    IN  /\ "news" \notin enabled_set => (news_response.isNone /\ ~serper_missing)
        /\ (/\ pc \notin {"start", "news"}
            /\ "news" \in enabled_set
            /\ news_response.note = "SERPER_API_KEY missing") =>
              /\ serper_missing
              /\ "news" \in DOMAIN outputs
              /\ outputs["news"] = SerperMissingOutput
              /\ outputs["news"].score_1_to_100 = 50
              /\ "news" \notin scheduled
        /\ serper_missing => news_response.note = "SERPER_API_KEY missing"

\* The credential was missing, other tasks ran, and the run has returned with
\* the neutral news output in place.
C17_Witness ==
    /\ pc = "returned"
    /\ serper_missing
    /\ enabled_agents = NoneAgents
    /\ Len(tasks_output) = 4
    /\ outputs["news"] = SerperMissingOutput

\* The batch was scheduled and failed: the runtime raised, or it returned
\* fewer outputs than tasks.
BatchFailed ==
    /\ task_labels # <<>>
    /\ \/ pc = "raised"
       \/ HasReturned /\ Len(tasks_output) < Len(task_labels)

\* C18: a failed batch never makes run_specialists or analyze_listing raise;
\* the result is complete, the keys without an output carry the 'failed to
\* produce output' default and the other scheduled keys their own parsed
\* outputs.
C18_BatchFailureIsolated ==
    BatchFailed =>
        /\ pc \notin {"raised", "report_raised"}
        /\ DOMAIN outputs = AgentKeys
        /\ \A i \in 1..Len(task_labels) :
              IF i > Len(tasks_output)
              THEN outputs[task_labels[i]] = FailedOutput
              ELSE outputs[task_labels[i]]
                      = _parse_agent_output(_extract_raw_output(tasks_output[i])).v

\* The synthesis output could not be parsed.
SynthesisUnparseable ==
    /\ report.made
    /\ report.summary \in {ParseErrorRationale(e) :
                               e \in {"JSONDecodeError", "AttributeError", "ValidationError"}}

\* C20: given a complete specialist result, build_final_report never raises,
\* whatever the synthesis task does; when the synthesis output is
\* unparseable the report carries the specialist scores unchanged, their
\* weighted overall, and the fallback record's rationale and notes.
C20_SynthesisFailureTolerated ==
    (HasReturned /\ DOMAIN outputs = AgentKeys) =>
        /\ pc # "report_raised"
        /\ SynthesisUnparseable =>
              /\ report.scores
                    = AgentScores(outputs["investment"].score_1_to_100,
                                  outputs["location"].score_1_to_100,
                                  outputs["news"].score_1_to_100,
                                  outputs["vc_risk"].score_1_to_100,
                                  outputs["construction"].score_1_to_100,
                                  weighted_overall(ScoresDict(outputs), get_weights).v)
              /\ report.memo_markdown = <<"Failed to parse agent response">>

\* C21: in every FinalReport the five specialist scores are the scores of
\* the batch outputs investment, location, news, vc_risk and construction,
\* the five output fields are those outputs, and the overall score is
\* weighted_overall of the five scores under the configured weights, whatever
\* score the synthesis output carries.
C21_ReportScores ==
    report.made =>
        LET sc == report.scores
            five == [k \in AgentKeys |->
                        CASE k = "investment" -> sc.investment
                          [] k = "location" -> sc.location
                          [] k = "news" -> sc.news_signal
                          [] k = "vc_risk" -> sc.risk_return
                          [] k = "construction" -> sc.construction]
        IN  /\ \A k \in AgentKeys : five[k] = outputs[k].score_1_to_100
            /\ \A k \in AgentKeys : report.outputs[k] = outputs[k]
            /\ sc.overall = weighted_overall(five, get_weights).v

\* A report whose overall score differs from the score of the synthesis
\* output, built from outputs that are not all neutral.
C21_Witness ==
    /\ pc = "reported"
    /\ report.aggregator_output.score_1_to_100 = 77
    /\ outputs["investment"].score_1_to_100 = 81
    /\ outputs["construction"].score_1_to_100 = 45
    /\ report.scores.overall # 77
    /\ report.scores.overall # NeutralScore

\* C22: the memo is the notes of the synthesis output joined in their order
\* with newlines when there is a note, and the literal 'No memo generated'
\* when there is none (so the placeholder stands for empty notes only, unless
\* the notes themselves spell it); the summary is the synthesis rationale,
\* or 'Summary unavailable' when the rationale is empty.
C22_MemoAndSummary ==
    report.made =>
        LET notes == report.aggregator_output.notes
            rationale == report.aggregator_output.rationale
        IN  /\ notes # <<>> =>
                  /\ report.memo_markdown = JoinLines(notes)
                  /\ Len(report.memo_markdown) = 2 * Len(notes) - 1
                  /\ \A i \in 1..Len(notes) : report.memo_markdown[2 * i - 1] = notes[i]
                  /\ \A i \in 1..(Len(notes) - 1) : report.memo_markdown[2 * i] = "\n"
            /\ notes = <<>> => report.memo_markdown = <<"No memo generated">>
            /\ (report.memo_markdown = <<"No memo generated">>)
                  => (notes = <<>> \/ notes = <<"No memo generated">>)
            /\ rationale # "" => report.summary = rationale
            /\ rationale = "" => report.summary = "Summary unavailable"

\* A report of two notes, and one of no notes with a rationale.
C22_Witness ==
    /\ pc = "reported"
    /\ report.aggregator_output.notes = <<"line 1", "line 2">>
    /\ report.memo_markdown = <<"line 1", "\n", "line 2">>
    /\ report.summary = "memo summary"

C22_WitnessEmpty ==
    /\ pc = "reported"
    /\ report.aggregator_output.notes = <<>>
    /\ report.aggregator_output.rationale = "memo summary"
    /\ report.memo_markdown = <<"No memo generated">>

\* The batch has been run and its outputs paired with the labels.
BatchZipped == pc \in {"fill", "returned", "reported", "report_raised"}

\* The keys of the sequence keys that are in the set chosen, in their order.
RECURSIVE Restrict(_, _)
Restrict(keys, chosen) ==
    IF keys = <<>> THEN <<>>
    ELSE (IF Head(keys) \in chosen THEN <<Head(keys)>> ELSE <<>>)
         \o Restrict(Tail(keys), chosen)

\* C23: the task labels are the keys investment, location, news, vc_risk,
\* construction, in this order, restricted to the tasks scheduled; the i-th
\* task output is paired with the i-th label, so that raw_outputs[k] and
\* outputs[k] of a key whose task answered are the raw text and the parsed
\* output of the task built for k (its answer names k), for every enabled
\* set.
C23_LabelsPairedInOrder ==
    /\ pc \notin {"start", "news", "build"} =>
          task_labels = Restrict(ALL_AGENT_KEYS,
                                 {k \in AgentKeys :
                                      /\ k \in EnabledSet(enabled_agents)
                                      /\ (k = "news" => ~serper_missing)})
    /\ BatchZipped =>
          \A i \in 1..Len(tasks_output) :
              LET k == task_labels[i]
                  raw_str == _extract_raw_output(tasks_output[i])
              IN  /\ tasks_output[i].task = k
                  /\ raw_outputs[k] = RawText(raw_str)
                  /\ outputs[k] = _parse_agent_output(raw_str).v
                  /\ outputs[k] \in {AgentOutput(KeyScore(k), k, <<"a", "b">>),
                                     ParseFallback("JSONDecodeError")}

\* Investment and construction alone were scheduled and both answered.
C23_Witness ==
    /\ pc = "returned"
    /\ task_labels = <<"investment", "construction">>
    /\ Len(tasks_output) = 2
    /\ outputs["investment"].rationale = "investment"
    /\ outputs["construction"].rationale = "construction"
    /\ raw_outputs["construction"].kind = "task"

\* The news query was made and failed for another reason than the missing
\* credential.
NewsQueryFailed ==
    /\ ~news_response.isNone
    /\ news_response.items = 0
    /\ news_response.note \notin {"", "SERPER_API_KEY missing"}

\* C28: when the news query failed for another reason than the missing
\* credential, serper_missing stays false, outputs['news'] is not set
\* before the batch, and the news task is scheduled with the failure note
\* in its context; serper_missing is true only for the exact note
\* 'SERPER_API_KEY missing'.
C28_NewsFailureStillScheduled ==
    /\ serper_missing <=> (~news_response.isNone
                              /\ news_response.note = "SERPER_API_KEY missing")
    /\ NewsQueryFailed =>
          /\ ~serper_missing
          /\ pc \in {"build", "kickoff"} => "news" \notin DOMAIN outputs
          /\ pc \notin {"start", "news", "build"} =>
                /\ \E i \in 1..Len(task_labels) : task_labels[i] = "news"
                /\ \E j \in 1..Len(_format_news_context(news_response)) :
                      _format_news_context(news_response)[j]
                          = <<"Note: ", news_response.note>>

\* The query failed with 'Serper error 503' and the news task answered.
C28_Witness ==
    /\ pc = "returned"
    /\ news_response = NewsResponse(0, "Serper error 503")
    /\ task_labels = <<"news">>
    /\ Len(tasks_output) = 1
    /\ outputs["news"].rationale = "news"

\* The stages that may follow a stage of analyze_listing.
StageAfter(stage) ==
    CASE stage = "start" -> {"news", "raised"}
      [] stage = "news" -> {"build"}
      [] stage = "build" -> {"kickoff"}
      [] stage = "kickoff" -> {"fill", "raised"}
      [] stage = "fill" -> {"returned"}
      [] stage = "returned" -> {"reported", "report_raised"}
      [] OTHER -> {}

\* What has and has not happened at each stage.
C24_StageState ==
    /\ pc = "start" => (~la_fetch.called /\ news_response.isNone)
    /\ pc \in {"start", "news", "build"} => (task_labels = <<>> /\ tasks_output = <<>>)
    /\ pc \in {"build", "kickoff", "fill", "returned", "reported", "report_raised"} =>
          ("news" \in EnabledSet(enabled_agents) => ~news_response.isNone)
    /\ pc = "kickoff" => tasks_output = <<>>
    /\ pc \notin {"reported"} => ~report.made
    /\ pc = "reported" => (report.made /\ AgentKeys \subseteq DOMAIN outputs)
    /\ pc \in {"returned", "reported", "report_raised"} => AgentKeys \subseteq DOMAIN outputs

\* C24: within one analyze_listing call the stages follow one another in
\* the order dataset fetch, news query, task building and batch, default
\* fill, report (weighted overall, synthesis, assembly); every step moves to
\* a later stage, so no stage is entered twice; no task is dispatched before
\* the dataset fetch and the news query are over, and the report is built
\* only when all five outputs are populated.
C24_StageOrder ==
    /\ []C24_StageState
    /\ [][pc' \in StageAfter(pc)]_vars

\* A call that went through every stage, with a dataset fetch and a news
\* query.
C24_Witness ==
    /\ pc = "reported"
    /\ la_fetch.called
    /\ ~news_response.isNone
    /\ Len(tasks_output) = 5
    /\ report.made

\* C29: with an empty enabled sequence the tasks scheduled are those of a
\* call with None, all five specialists (news left out only for a missing
\* Serper key), but no dataset fetch is made; the dataset fetch is made
\* exactly when the argument is None or contains 'la_city' and the listing
\* has an address.
C29_EmptyEnabledSequence ==
    LET empty == enabled_agents = SomeAgents({})
        wanted == enabled_agents.isNone \/ "la_city" \in enabled_agents.keys
    IN  /\ (empty /\ pc \notin {"start", "news", "build"}) =>
              /\ task_labels = BuildLabels(1, EnabledSet(NoneAgents), serper_missing)
              /\ ~serper_missing => task_labels = ALL_AGENT_KEYS
              /\ Len(task_labels) >= 4
        /\ empty => ~la_fetch.called
        /\ la_fetch.called => (wanted /\ listing.address # "")
        /\ (pc # "start" /\ wanted /\ listing.address # "") => la_fetch.called

\* A call with an empty sequence for a listing with an address ran all five
\* tasks and made no dataset fetch.
C29_Witness ==
    /\ pc = "returned"
    /\ enabled_agents = SomeAgents({})
    /\ listing.address # ""
    /\ Len(tasks_output) = 5
    /\ ~la_fetch.called

====
